---- MODULE Spec2Model ----
(***************************************************************************)
(* Model of the image-generation front end: the App component's history    *)
(* store (load / save effects over localStorage), the generate and edit    *)
(* request flows, and the helpers they call.                               *)
(*                                                                         *)
(* Strings that the code inspects (trim, truthiness, concatenation) are    *)
(* sequences of pieces; the piece " " is a whitespace character.           *)
(* A data URL is a record [mime, w, h, pix]: its MIME type, the natural    *)
(* size of the bitmap it decodes to, and the identity of its picture.      *)
(*                                                                         *)
(* A committed change of history and the save effect that follows it are   *)
(* one step: React runs the effects of a commit before it handles the next *)
(* event.  Awaits (the API requests, resizeImage) separate steps.          *)
(* localStorage.setItem may throw (quota); getItem and removeItem do not.  *)
(* Date.now() never runs backwards.  The edit tab's added characters and   *)
(* objects stay at their initial empty lists.                              *)
(*                                                                         *)
(* Spec is the history store with handleAddToHistory called on any result; *)
(* SpecSession is a session on both tabs that starts with nothing stored;  *)
(* SpecScene is a session that edits the scene; SpecCompose applies the    *)
(* prompt generator to drawn scenes; SpecGeometry applies the ratio        *)
(* editor, parseAspectRatio and resizeImage to drawn inputs; SpecEditor is  *)
(* an item's ratio editor with its pending image loads; SpecDrop drops     *)
(* drags on the items of the two lists; SpecLoading is a session in which  *)
(* every API call settles (weak fairness on the settling of requests).     *)
(***************************************************************************)
EXTENDS Integers, Sequences, FiniteSets, Bags, TLC

\* ---------------------------------------------------------------- constants
MAX_HISTORY_ITEMS == 10
HISTORY_IMAGE_SIZE == 512
MaxNumberOfImages == 4

\* ------------------------------------------------------------------- bounds
\* longest array found under the storage key at startup
MaxStored == 11
\* API requests (generate + edit) issued in one session
MaxRequests == 2
\* milliseconds Date.now() advances during the session
MaxTime == 1
\* handleAddToHistory and handleDeleteFromHistory calls in one session of
\* the history store
MaxCalls == 2
\* changes made to the characters, the objects, the reference images and the
\* select controls in one session
MaxEdits == 2
\* characters of a scene the prompt generator is applied to
MaxCharacters == 2
\* characters of a ratio string given to parseAspectRatio
MaxRatioLen == 4
\* width and height, in pixels, of the small images padded and resized
MaxSide == 6

\* the JavaScript null
null == [null |-> TRUE]

VARIABLES
    phase,              \* "init" before the mount effects have run, then "ready"
    storage,            \* localStorage value under 'generationHistory' (null = absent)
    history,
    now,                \* the last reading of Date.now()
    activeTab,
    characters,
    additionalElements,
    sceneDescription,
    sceneLocationImage,
    styleImage,
    aspectRatio,
    artisticStyle,
    lightingStyle,
    cameraPerspective,
    numberOfImages,
    generatedPrompt,
    generatedImages,
    genLoading,
    genError,
    editBaseImage,
    standaloneEditPrompt,
    editedImage,
    editLoading,
    editError,
    genRequests,        \* the batch awaited by Promise.all: "pending" or the result, per request
    genBatchPrompt,     \* generatedPrompt captured by the running handleGenerateClick
    orphanRequests,     \* requests of a rejected batch that are still in flight
    editRequest,        \* null, or the prompt of the edit request in flight
    pendingResizes,     \* bag of handleAddToHistory calls awaiting resizeImage
    issued,             \* API requests issued so far
    deletes,            \* deletions so far
    lastClick,          \* the button the last step clicked: generate, edit, clear, or none
    storeOps,           \* localStorage writes performed by the last step
    appended,           \* history items prepended so far
    results,            \* successful API results handed to handleAddToHistory so far
    resizeFailed,       \* handleAddToHistory calls whose resize was rejected
    edits,              \* changes made to the characters, objects, images and controls
    imageToEdit,        \* the ImageFile the ratio editor works on
    editorAspectRatio,  \* the ratio editor's aspectRatio string
    editorCanvas,       \* null, or what the editor's onload left on its canvas
    ratioStr,           \* the string parseAspectRatio is called with
    targetAspectRatio,  \* null, or what parseAspectRatio returned
    resizeSource,       \* the data URL resizeImage is called with
    resizeTarget,       \* the longest side resizeImage is called with
    resizeCanvas,       \* null, or what resizeImage's onload left on its canvas
    resizeError,        \* null, or the error resizeImage's promise was rejected with
    editedElem,         \* null, or the list and id of the item whose editor was opened
    isEditModalOpen,    \* the edited item's ratio editor is open
    isProcessing,       \* the editor's Apply button is disabled
    loads,              \* the image loads started by handleApply, not yet settled
    padReport,          \* null, or the last settled load and what its callback did
    dropEvent           \* null, or the list and indices of the last drop that reordered

sceneVars == <<characters, additionalElements, sceneDescription, sceneLocationImage,
               styleImage, aspectRatio, artisticStyle, lightingStyle, cameraPerspective>>
genVars == <<numberOfImages, generatedImages, genLoading, genError, genRequests,
             genBatchPrompt, orphanRequests>>
editVars == <<editBaseImage, standaloneEditPrompt, editedImage, editLoading, editError,
              editRequest>>
histVars == <<storage, history, deletes, appended>>
countVars == <<issued, results, resizeFailed>>
editorVars == <<imageToEdit, editorAspectRatio, editorCanvas, ratioStr, targetAspectRatio>>
resizeVars == <<resizeSource, resizeTarget, resizeCanvas, resizeError>>
padVars == <<editedElem, isEditModalOpen, isProcessing, loads, padReport>>
otherVars == <<edits, editorVars, resizeVars, padVars, dropEvent>>

vars == <<phase, now, activeTab, generatedPrompt, pendingResizes, lastClick, storeOps,
          sceneVars, genVars, editVars, histVars, countVars, otherVars>>

\* ------------------------------------------------------------------ strings
\* String.prototype.trim: drop the whitespace pieces at both ends
RECURSIVE trimStart(_)
trimStart(s) ==
    IF s # <<>> /\ Head(s) = " " THEN trimStart(Tail(s)) ELSE s

RECURSIVE trimEnd(_)
trimEnd(s) ==
    IF s # <<>> /\ s[Len(s)] = " " THEN trimEnd(SubSeq(s, 1, Len(s) - 1)) ELSE s

trim(s) == trimEnd(trimStart(s))

\* Array.prototype.join of a sequence of strings
RECURSIVE join(_, _)
join(parts, sep) ==
    IF parts = <<>> THEN <<>>
    ELSE IF Len(parts) = 1 THEN parts[1]
    ELSE parts[1] \o sep \o join(Tail(parts), sep)

\* Array.prototype.slice(0, n)
slice0(s, n) == SubSeq(s, 1, IF Len(s) < n THEN Len(s) ELSE n)

\* ------------------------------------------------------------------- images
\* Math.round of the non-negative quotient a / b
round(a, b) == (2 * a + b) \div (2 * b)

\* the data URLs the generation API answers with
ResultImages ==
    { [mime |-> "image/png", w |-> 1024, h |-> 1024, pix |-> "p"],
      [mime |-> "image/jpeg", w |-> 1000, h |-> 500, pix |-> "q"] }

\* the image a user uploads as edit base
UploadedImage == [mimeType |-> "image/webp", base64 |-> [w |-> 300, h |-> 400, pix |-> "u"]]

parseDataUrl(dataUrl) ==
    [base64 |-> [w |-> dataUrl.w, h |-> dataUrl.h, pix |-> dataUrl.pix],
     mimeType |-> dataUrl.mime]

\* resizeImage divides or multiplies by the double width / height.  Where
\* the exact proportional side is k + 1/2, the double result is either the
\* half itself or the double just below it, and Math.round then gives k + 1
\* or k.  These are the calls <<width, height, targetLongestSide>>, among
\* the sizes and targets drawn here, whose IEEE-754 result lies below the
\* half: 512 / (1024 / 99) = 49.49999999999999 and 35 / (14 / 3) =
\* 7.499999999999999.
DoubleBelowHalf == { <<1024, 99, 512>>, <<14, 3, 35>> }

\* resizeImage truncates the proportional side instead of rounding it
resizeImageTruncates(imageUrl, targetLongestSide) ==
    LET width == imageUrl.w
        height == imageUrl.h
        newW == IF width > height THEN targetLongestSide
                ELSE (targetLongestSide * width) \div height
        newH == IF width > height THEN (targetLongestSide * height) \div width
                ELSE targetLongestSide
    IN [mime |-> IF imageUrl.mime = "image/jpeg" THEN "image/jpeg" ELSE "image/png",
        w |-> newW, h |-> newH, pix |-> imageUrl.pix]

\* resizeImage, the onload path: the data URL the promise resolves with
resizeImage(imageUrl, targetLongestSide) ==
    LET width == imageUrl.w
        height == imageUrl.h
        below == IF <<width, height, targetLongestSide>> \in DoubleBelowHalf THEN 1 ELSE 0
        newW == IF width > height THEN targetLongestSide
                ELSE round(targetLongestSide * width, height) - below
        newH == IF width > height THEN round(targetLongestSide * height, width) - below
                ELSE targetLongestSide
    IN [mime |-> IF imageUrl.mime = "image/jpeg" THEN "image/jpeg" ELSE "image/png",
        w |-> newW, h |-> newH, pix |-> imageUrl.pix]

\* ----------------------------------------------------------- local storage
\* A stored string is the empty string, text that is not JSON, or the JSON
\* text of a value; JSON.stringify / JSON.parse map between value and text.
EmptyString == [txt |-> "empty"]
MalformedText == [txt |-> "malformed"]
JSONstringify(v) == [txt |-> "json", value |-> v]
JSONarray(items) == [type |-> "array", items |-> items]
JSONobject == [type |-> "object"]
JSONnull == [type |-> "null"]

\* JSON.parse: throws on text that is not JSON
JSONparse(s) ==
    IF s.txt = "json" THEN [throws |-> FALSE, value |-> s.value]
    ELSE [throws |-> TRUE, value |-> JSONnull]

ArrayIsArray(v) == v.type = "array"

\* an item left in storage by an earlier session, created at millisecond k
OldItem(k) ==
    [id |-> <<"gen", k>>,
     image |-> [base64 |-> [w |-> 512, h |-> 512, pix |-> "o"], mimeType |-> "image/png"],
     prompt |-> <<"old">>,
     createdAt |-> k]

\* the array an earlier session stored, newest first
OldArray(n) == [i \in 1..n |-> OldItem(n + 1 - i)]

StoredLengths == {0, MAX_HISTORY_ITEMS, MaxStored}

InitialStorage ==
    {null, EmptyString, MalformedText, JSONstringify(JSONobject), JSONstringify(JSONnull)}
    \cup {JSONstringify(JSONarray(OldArray(n))) : n \in StoredLengths}

SessionStart == MaxStored + 1

\* ---------------------------------------------------------- select options
\* getAspectRatioOptions: the values, each a sequence of characters
ASPECT_RATIOS ==
    << <<"1", "6", ":", "9">>, <<"9", ":", "1", "6">>, <<"1", ":", "1">>,
       <<"4", ":", "3">>, <<"2", ".", "3", "9", ":", "1">> >>

\* the first two values of the style, lighting and perspective options
ARTISTIC_STYLES == <<"photorealistic", "cinematic">>
LIGHTING_STYLES == <<"natural morning light", "bright daylight">>
CAMERA_PERSPECTIVES == <<"eye-level shot", "establishing shot">>

\* ------------------------------------------------------------ derived state
\* mutant of hasImage: an image counts only when the item is named
hasImageNeedsName(c) == c.image # null /\ trim(c.name) # <<>>

hasImage(c) == c.image # null
hasImageAndName(c) == c.image # null /\ trim(c.name) # <<>>

hasSceneDescription == trim(sceneDescription) # <<>>
hasCharacterImage == \E i \in DOMAIN characters : hasImage(characters[i])
hasElementImage == \E i \in DOMAIN additionalElements : hasImage(additionalElements[i])
hasLocationImage == sceneLocationImage # null

\* mutant of isGenerationDisabled: the loading flag is not consulted
isGenerationDisabledIgnoresLoading ==
    ~(hasSceneDescription \/ hasCharacterImage \/ hasElementImage \/ hasLocationImage)

isGenerationDisabled ==
    ~(hasSceneDescription \/ hasCharacterImage \/ hasElementImage \/ hasLocationImage)
    \/ genLoading

isEditDisabled ==
    editBaseImage = null \/ trim(standaloneEditPrompt) = <<>> \/ editLoading

\* ------------------------------------------------------------------ prompts
\* mutant of integrationNames: the filter tests the image only
integrationNamesKeepsBlank(list) ==
    LET kept == SelectSeq(list, hasImage)
    IN join([i \in 1..Len(kept) |-> <<"(">> \o trim(kept[i].name) \o <<")">>], <<", ">>)

RECURSIVE sortById(_)
sortById(list) ==
    IF list = <<>> THEN <<>>
    ELSE LET first == CHOOSE i \in DOMAIN list : \A j \in DOMAIN list : list[i].id <= list[j].id
         IN <<list[first]>>
            \o sortById(SubSeq(list, 1, first - 1) \o SubSeq(list, first + 1, Len(list)))

\* mutant of integrationNames: the names are listed in the order of the ids
integrationNamesById(list) ==
    LET kept == sortById(SelectSeq(list, hasImageAndName))
    IN join([i \in 1..Len(kept) |-> <<"(">> \o trim(kept[i].name) \o <<")">>], <<", ">>)

\* list.filter(image and name).map(c => `(${c.name.trim()})`).join(', ')
integrationNames(list) ==
    LET kept == SelectSeq(list, hasImageAndName)
    IN join([i \in 1..Len(kept) |-> <<"(">> \o trim(kept[i].name) \o <<")">>], <<", ">>)

\* mutant of promptGenerator: the lighting clause is pushed before the
\* composition clause
promptGeneratorLightingFirst(chars, elems, description, location, style, ratio, artistic, lighting, camera) ==
    LET characterNames == integrationNames(chars)
        elementNames == integrationNames(elems)
        characterIntegration ==
            IF characterNames # <<>>
            THEN <<"Integrate the characters ">> \o characterNames
                 \o <<" from their reference images.">>
            ELSE <<>>
        elementIntegration ==
            IF elementNames # <<>>
            THEN <<"Integrate the objects ">> \o elementNames
                 \o <<" from their reference images.">>
            ELSE <<>>
        locationIntegration ==
            IF location # null
            THEN <<"Use the provided \"Scene Location\" image as the background environment.">>
            ELSE <<>>
        nonEmpty(part) == part # <<>>
        integrationInstructions ==
            join(SelectSeq(<<characterIntegration, elementIntegration, locationIntegration>>,
                           nonEmpty), <<" ">>)
        promptParts ==
            << <<"Generate a cinematic image in a ", artistic, " style.">> >>
            \o (IF description # <<>>
                THEN << <<"The scene is: ">> \o description \o <<".">> >> ELSE <<>>)
            \o << <<"The lighting is ", lighting, ".">> >>
            \o << <<"Use a ", camera, " with a ">> \o ratio \o <<" aspect ratio.">> >>
            \o (IF integrationInstructions # <<>> THEN <<integrationInstructions>> ELSE <<>>)
            \o (IF style # null
                THEN << <<"Use the \"Style Reference\" image to influence the overall visual style and color palette.">> >>
                ELSE <<>>)
            \o (IF (\E i \in DOMAIN chars : hasImage(chars[i]))
                   \/ (\E i \in DOMAIN elems : hasImage(elems[i]))
                THEN << <<"CRITICAL INSTRUCTION: fill transparent padding by extending the scene.">> >>
                ELSE <<>>)
    IN join(SelectSeq(promptParts, nonEmpty), <<" ">>)

\* the prompt generator effect: the string it hands to setGeneratedPrompt
promptGenerator(chars, elems, description, location, style, ratio, artistic, lighting, camera) ==
    LET characterNames == integrationNames(chars)
        elementNames == integrationNames(elems)
        characterIntegration ==
            IF characterNames # <<>>
            THEN <<"Integrate the characters ">> \o characterNames
                 \o <<" from their reference images.">>
            ELSE <<>>
        elementIntegration ==
            IF elementNames # <<>>
            THEN <<"Integrate the objects ">> \o elementNames
                 \o <<" from their reference images.">>
            ELSE <<>>
        locationIntegration ==
            IF location # null
            THEN <<"Use the provided \"Scene Location\" image as the background environment.">>
            ELSE <<>>
        nonEmpty(part) == part # <<>>
        integrationInstructions ==
            join(SelectSeq(<<characterIntegration, elementIntegration, locationIntegration>>,
                           nonEmpty), <<" ">>)
        promptParts ==
            << <<"Generate a cinematic image in a ", artistic, " style.">> >>
            \o (IF description # <<>>
                THEN << <<"The scene is: ">> \o description \o <<".">> >> ELSE <<>>)
            \o << <<"Use a ", camera, " with a ">> \o ratio \o <<" aspect ratio.">> >>
            \o << <<"The lighting is ", lighting, ".">> >>
            \o (IF integrationInstructions # <<>> THEN <<integrationInstructions>> ELSE <<>>)
            \o (IF style # null
                THEN << <<"Use the \"Style Reference\" image to influence the overall visual style and color palette.">> >>
                ELSE <<>>)
            \o (IF (\E i \in DOMAIN chars : hasImage(chars[i]))
                   \/ (\E i \in DOMAIN elems : hasImage(elems[i]))
                THEN << <<"CRITICAL INSTRUCTION: fill transparent padding by extending the scene.">> >>
                ELSE <<>>)
    IN join(SelectSeq(promptParts, nonEmpty), <<" ">>)

\* the prompt of the current scene state
currentPrompt ==
    promptGenerator(characters, additionalElements, sceneDescription, sceneLocationImage,
                    styleImage, aspectRatio, artisticStyle, lightingStyle, cameraPerspective)

\* the prompt handleApplyStandaloneEdit builds (no added characters or objects)
editPrompt(instruction) ==
    <<"Apply this edit to the base image: ">> \o instruction \o <<".">>

\* ------------------------------------------------------------------ history
\* mutant of addToHistory: keeps the last MAX_HISTORY_ITEMS entries, as slice(-10)
addToHistoryKeepsLast(prev, newHistoryItem) ==
    LET all == <<newHistoryItem>> \o prev
    IN IF Len(all) <= MAX_HISTORY_ITEMS THEN all
       ELSE SubSeq(all, Len(all) - MAX_HISTORY_ITEMS + 1, Len(all))

\* mutant of addToHistory: the new item is put behind the others
addToHistoryAtEnd(prev, newHistoryItem) ==
    slice0(prev \o <<newHistoryItem>>, MAX_HISTORY_ITEMS)

\* the updater handleAddToHistory passes to setHistory
addToHistory(prev, newHistoryItem) ==
    slice0(<<newHistoryItem>> \o prev, MAX_HISTORY_ITEMS)

\* mutant of deleteFromHistory: the filter test inverted
deleteFromHistoryInverted(prev, id) ==
    LET keep(item) == item.id = id IN SelectSeq(prev, keep)

\* the updater handleDeleteFromHistory passes to setHistory
deleteFromHistory(prev, id) ==
    LET keep(item) == item.id # id IN SelectSeq(prev, keep)

\* mutant of saveHistory: the empty list is written as an empty array
saveHistoryWritesEmpty(h, stored, quotaExceeded) ==
    IF quotaExceeded
    THEN [storage |-> stored, ops |-> <<"setItem throws">>]
    ELSE [storage |-> JSONstringify(JSONarray(h)), ops |-> <<"setItem">>]

\* mutant of saveHistory: nothing is done for the empty list
saveHistoryKeepsKey(h, stored, quotaExceeded) ==
    IF Len(h) > 0
    THEN IF quotaExceeded
         THEN [storage |-> stored, ops |-> <<"setItem throws">>]
         ELSE [storage |-> JSONstringify(JSONarray(h)), ops |-> <<"setItem">>]
    ELSE [storage |-> stored, ops |-> <<>>]

\* the save effect: what it does to the stored value when history is h;
\* setItem throws when the quota is exceeded, and the catch only logs
saveHistory(h, stored, quotaExceeded) ==
    IF Len(h) > 0
    THEN IF quotaExceeded
         THEN [storage |-> stored, ops |-> <<"setItem throws">>]
         ELSE [storage |-> JSONstringify(JSONarray(h)), ops |-> <<"setItem">>]
    ELSE [storage |-> null, ops |-> <<"removeItem">>]

\* mutant of loadHistory: the parsed array is not cut to the cap
loadHistoryUncut(stored) ==
    IF stored = null \/ stored = EmptyString
    THEN [storage |-> stored, loaded |-> null, ops |-> <<>>]
    ELSE LET parsed == JSONparse(stored) IN
         IF parsed.throws
         THEN [storage |-> null, loaded |-> null, ops |-> <<"removeItem">>]
         ELSE IF ArrayIsArray(parsed.value)
         THEN [storage |-> stored, loaded |-> [list |-> parsed.value.items], ops |-> <<>>]
         ELSE [storage |-> stored, loaded |-> null, ops |-> <<>>]

\* the load effect: the stored value it leaves and the list it hands to
\* setHistory (null when it does not call setHistory)
loadHistory(stored) ==
    IF stored = null \/ stored = EmptyString
    THEN [storage |-> stored, loaded |-> null, ops |-> <<>>]
    ELSE LET parsed == JSONparse(stored) IN
         IF parsed.throws
         THEN [storage |-> null, loaded |-> null, ops |-> <<"removeItem">>]
         ELSE IF ArrayIsArray(parsed.value)
         THEN [storage |-> stored,
               loaded |-> [list |-> slice0(parsed.value.items, MAX_HISTORY_ITEMS)],
               ops |-> <<>>]
         ELSE [storage |-> stored, loaded |-> null, ops |-> <<>>]

\* --------------------------------------------------------------- requests
Pending == [pending |-> TRUE]

\* a handleAddToHistory call that awaits resizeImage
Job(image, prompt, type) == [image |-> image, prompt |-> prompt, type |-> type]

\* err instanceof Error ? err.message : 'An unknown error occurred.'
ErrorMessages == {[message |-> "An unknown error occurred."]}

Descriptions == {<<>>, <<"a">>}
EditInstructions == {<<>>, <<"e">>}

RECURSIVE BagOfSeq(_)
BagOfSeq(s) == IF s = <<>> THEN EmptyBag ELSE SetToBag({Head(s)}) (+) BagOfSeq(Tail(s))

\* ---------------------------------------------------------------- initial
\* the useState initial values of the scene
InitScene ==
    /\ characters = << [id |-> 1, name |-> <<"homme">>, image |-> null],
                       [id |-> 2, name |-> <<"femme">>, image |-> null] >>
    /\ additionalElements = <<>>
    /\ sceneDescription = <<>>
    /\ sceneLocationImage = null
    /\ styleImage = null
    /\ aspectRatio = ASPECT_RATIOS[1]
    /\ artisticStyle = ARTISTIC_STYLES[1]
    /\ lightingStyle = LIGHTING_STYLES[1]
    /\ cameraPerspective = CAMERA_PERSPECTIVES[1]

\* the other useState initial values, and nothing in flight
InitRest ==
    /\ history = <<>>
    /\ now = SessionStart
    /\ activeTab = "generate"
    /\ numberOfImages = 1
    /\ generatedImages = <<>>
    /\ genLoading = FALSE
    /\ genError = null
    /\ editBaseImage = null
    /\ standaloneEditPrompt = <<>>
    /\ editedImage = null
    /\ editLoading = FALSE
    /\ editError = null
    /\ genRequests = <<>>
    /\ genBatchPrompt = <<>>
    /\ orphanRequests = 0
    /\ editRequest = null
    /\ pendingResizes = EmptyBag
    /\ issued = 0
    /\ deletes = 0
    /\ lastClick = "none"
    /\ storeOps = <<>>
    /\ appended = 0
    /\ results = 0
    /\ resizeFailed = 0
    /\ edits = 0

\* the state of App after construction, for any stored value
InitApp ==
    /\ phase = "init"
    /\ storage \in InitialStorage
    /\ generatedPrompt = <<>>
    /\ InitScene
    /\ InitRest

\* no ratio editor is open and no resize has been asked for
InitTools ==
    /\ imageToEdit = null
    /\ editorAspectRatio = ASPECT_RATIOS[1]
    /\ editorCanvas = null
    /\ ratioStr = ASPECT_RATIOS[1]
    /\ targetAspectRatio = null
    /\ resizeSource = null
    /\ resizeTarget = HISTORY_IMAGE_SIZE
    /\ resizeCanvas = null
    /\ resizeError = null
    /\ editedElem = null
    /\ isEditModalOpen = FALSE
    /\ isProcessing = FALSE
    /\ loads = <<>>
    /\ padReport = null
    /\ dropEvent = null

Init == InitApp /\ InitTools

\* ------------------------------------------------------------------ actions
\* The effects of the first commit, in declaration order: the load effect,
\* the save effect with the initial empty history, the prompt generator;
\* then, when the load effect called setHistory, the re-render and its save
\* effect.
Mount ==
    /\ phase = "init"
    /\ \E quotaExceeded \in BOOLEAN :
         LET load == loadHistory(storage)
             save1 == saveHistory(history, load.storage, FALSE)
             save2 == saveHistory(load.loaded.list, save1.storage, quotaExceeded)
         IN IF load.loaded = null
            THEN /\ ~quotaExceeded
                 /\ history' = history
                 /\ storage' = save1.storage
                 /\ storeOps' = load.ops \o save1.ops
            ELSE /\ (quotaExceeded => Len(load.loaded.list) > 0)
                 /\ history' = load.loaded.list
                 /\ storage' = save2.storage
                 /\ storeOps' = load.ops \o save1.ops \o save2.ops
    /\ phase' = "ready"
    /\ generatedPrompt' = currentPrompt
    /\ lastClick' = "none"
    /\ UNCHANGED <<now, activeTab, pendingResizes, sceneVars, genVars, editVars,
                   deletes, appended, countVars>>
    /\ UNCHANGED otherVars

setSceneDescription(value) ==
    /\ phase = "ready"
    /\ activeTab = "generate"
    /\ value # sceneDescription
    /\ sceneDescription' = value
    /\ generatedPrompt' =
         promptGenerator(characters, additionalElements, value, sceneLocationImage,
                         styleImage, aspectRatio, artisticStyle, lightingStyle,
                         cameraPerspective)
    /\ lastClick' = "none"
    /\ storeOps' = <<>>
    /\ UNCHANGED <<phase, now, activeTab, pendingResizes, characters, additionalElements,
                   sceneLocationImage, styleImage, aspectRatio, artisticStyle,
                   lightingStyle, cameraPerspective, genVars, editVars, histVars,
                   countVars>>
    /\ UNCHANGED otherVars

setNumberOfImages(n) ==
    /\ phase = "ready"
    /\ activeTab = "generate"
    /\ n # numberOfImages
    /\ numberOfImages' = n
    /\ lastClick' = "none"
    /\ storeOps' = <<>>
    /\ UNCHANGED <<phase, now, activeTab, generatedPrompt, pendingResizes, sceneVars,
                   generatedImages, genLoading, genError, genRequests, genBatchPrompt,
                   orphanRequests, editVars, histVars, countVars>>
    /\ UNCHANGED otherVars

\* an item and its ratio editor are unmounted: the ref of the editor's
\* canvas, which a pending load's callback reads, is cleared for good, and
\* the editor's state is dropped
unmounted(load) == [load EXCEPT !.mounted = FALSE]

\* a tab button; the prompt generator effect runs again when the tab
\* changes, and <main key={activeTab}> remounts the tab's components
setActiveTab(tabName) ==
    /\ phase = "ready"
    /\ ~isEditModalOpen
    /\ tabName # activeTab
    /\ activeTab' = tabName
    /\ generatedPrompt' = IF tabName = "generate" THEN currentPrompt ELSE generatedPrompt
    /\ lastClick' = "none"
    /\ storeOps' = <<>>
    /\ loads' = [i \in DOMAIN loads |-> unmounted(loads[i])]
    /\ isProcessing' = FALSE
    /\ UNCHANGED <<phase, now, pendingResizes, sceneVars, genVars, editVars, histVars,
                   countVars>>
    /\ UNCHANGED <<edits, editorVars, resizeVars, editedElem, isEditModalOpen, padReport,
                   dropEvent>>

\* the generate button: disabled, or handleGenerateClick up to its await
handleGenerateClick ==
    /\ phase = "ready"
    /\ activeTab = "generate"
    /\ lastClick' = "generate"
    /\ storeOps' = <<>>
    /\ IF isGenerationDisabled
       THEN UNCHANGED <<genVars, issued>>
       ELSE /\ issued + numberOfImages <= MaxRequests
            /\ genLoading' = TRUE
            /\ genError' = null
            /\ generatedImages' = <<>>
            /\ genRequests' = [i \in 1..numberOfImages |-> Pending]
            /\ genBatchPrompt' = generatedPrompt
            /\ issued' = issued + numberOfImages
            /\ UNCHANGED <<numberOfImages, orphanRequests>>
    /\ UNCHANGED <<phase, now, activeTab, generatedPrompt, pendingResizes, sceneVars,
                   editVars, histVars, results, resizeFailed>>
    /\ UNCHANGED otherVars

\* what handleGenerateClick does once Promise.all has resolved with results
generateResolved(batch) ==
    [generatedImages |-> batch,
     jobs |-> [i \in 1..Len(batch) |-> Job(batch[i], genBatchPrompt, "gen")],
     genError |-> genError]

\* mutant of generateRejected: the results that had arrived are shown and
\* stored, as with Promise.allSettled
generateRejectedShowsSettled(settled, err) ==
    [generatedImages |-> settled,
     jobs |-> [i \in 1..Len(settled) |-> Job(settled[i], genBatchPrompt, "gen")],
     genError |-> err]

\* what handleGenerateClick does once Promise.all has rejected with err,
\* settled being the requests that had resolved before
generateRejected(settled, err) ==
    [generatedImages |-> generatedImages,
     jobs |-> <<>>,
     genError |-> err]

\* one generateStoryImage call of the batch resolves; Promise.all resolves
\* with the last of them and handleGenerateClick runs to its end
generateStoryImageResolved(i, image) ==
    /\ genLoading
    /\ i \in DOMAIN genRequests
    /\ genRequests[i] = Pending
    /\ lastClick' = "none"
    /\ storeOps' = <<>>
    /\ LET batch == [genRequests EXCEPT ![i] = image] IN
       IF \E j \in DOMAIN batch : batch[j] = Pending
       THEN /\ genRequests' = batch
            /\ UNCHANGED <<generatedImages, genLoading, genError, pendingResizes, results>>
       ELSE LET out == generateResolved(batch) IN
            /\ generatedImages' = out.generatedImages
            /\ genError' = out.genError
            /\ pendingResizes' = pendingResizes (+) BagOfSeq(out.jobs)
            /\ results' = results + Len(out.jobs)
            /\ genLoading' = FALSE
            /\ genRequests' = <<>>
    /\ UNCHANGED <<phase, now, activeTab, generatedPrompt, sceneVars, numberOfImages,
                   genBatchPrompt, orphanRequests, editVars, histVars, issued,
                   resizeFailed>>
    /\ UNCHANGED otherVars

\* one generateStoryImage call of the batch rejects: Promise.all rejects at
\* once, the other calls of the batch stay in flight with no one awaiting them
generateStoryImageRejected(i, err) ==
    /\ genLoading
    /\ i \in DOMAIN genRequests
    /\ genRequests[i] = Pending
    /\ lastClick' = "none"
    /\ storeOps' = <<>>
    /\ LET settled == SelectSeq(genRequests, LAMBDA r : r # Pending)
           out == generateRejected(settled, err)
       IN /\ generatedImages' = out.generatedImages
          /\ genError' = out.genError
          /\ pendingResizes' = pendingResizes (+) BagOfSeq(out.jobs)
          /\ results' = results + Len(out.jobs)
          /\ orphanRequests' = orphanRequests + (Len(genRequests) - Len(settled) - 1)
    /\ genLoading' = FALSE
    /\ genRequests' = <<>>
    /\ UNCHANGED <<phase, now, activeTab, generatedPrompt, sceneVars, numberOfImages,
                   genBatchPrompt, editVars, histVars, issued, resizeFailed>>
    /\ UNCHANGED otherVars

\* a request of a rejected batch settles; nothing awaits it
orphanSettled ==
    /\ orphanRequests > 0
    /\ orphanRequests' = orphanRequests - 1
    /\ lastClick' = "none"
    /\ storeOps' = <<>>
    /\ UNCHANGED <<phase, now, activeTab, generatedPrompt, pendingResizes, sceneVars,
                   numberOfImages, generatedImages, genLoading, genError, genRequests,
                   genBatchPrompt, editVars, histVars, countVars>>
    /\ UNCHANGED otherVars

setStandaloneEditPrompt(value) ==
    /\ phase = "ready"
    /\ activeTab = "edit"
    /\ value # standaloneEditPrompt
    /\ standaloneEditPrompt' = value
    /\ lastClick' = "none"
    /\ storeOps' = <<>>
    /\ UNCHANGED <<phase, now, activeTab, generatedPrompt, pendingResizes, sceneVars,
                   genVars, editBaseImage, editedImage, editLoading, editError,
                   editRequest, histVars, countVars>>
    /\ UNCHANGED otherVars

\* the edit-base uploader
setEditBaseImage(image) ==
    /\ phase = "ready"
    /\ activeTab = "edit"
    /\ image # editBaseImage
    /\ editBaseImage' = image
    /\ lastClick' = "none"
    /\ storeOps' = <<>>
    /\ UNCHANGED <<phase, now, activeTab, generatedPrompt, pendingResizes, sceneVars,
                   genVars, standaloneEditPrompt, editedImage, editLoading, editError,
                   editRequest, histVars, countVars>>
    /\ UNCHANGED otherVars

\* the apply button: disabled, or handleApplyStandaloneEdit up to its await
handleApplyStandaloneEdit ==
    /\ phase = "ready"
    /\ activeTab = "edit"
    /\ lastClick' = "edit"
    /\ storeOps' = <<>>
    /\ IF isEditDisabled
       THEN UNCHANGED <<editVars, issued>>
       ELSE /\ issued + 1 <= MaxRequests
            /\ editLoading' = TRUE
            /\ editError' = null
            /\ editedImage' = null
            /\ editRequest' = [prompt |-> editPrompt(standaloneEditPrompt)]
            /\ issued' = issued + 1
            /\ UNCHANGED <<editBaseImage, standaloneEditPrompt>>
    /\ UNCHANGED <<phase, now, activeTab, generatedPrompt, pendingResizes, sceneVars,
                   genVars, histVars, results, resizeFailed>>
    /\ UNCHANGED otherVars

\* the edit request resolves and handleApplyStandaloneEdit runs to its end
editResolved(image) ==
    /\ editRequest # null
    /\ editedImage' = image
    /\ pendingResizes' = pendingResizes (+) SetToBag({Job(image, editRequest.prompt, "edit")})
    /\ results' = results + 1
    /\ editLoading' = FALSE
    /\ editRequest' = null
    /\ lastClick' = "none"
    /\ storeOps' = <<>>
    /\ UNCHANGED <<phase, now, activeTab, generatedPrompt, sceneVars, genVars,
                   editBaseImage, standaloneEditPrompt, editError, histVars, issued,
                   resizeFailed>>
    /\ UNCHANGED otherVars

\* mutant of editRejected: no finally, the loading flag stays set
editRejectedStaysLoading(err) ==
    /\ editRequest # null
    /\ editError' = err
    /\ editLoading' = editLoading
    /\ editRequest' = null
    /\ lastClick' = "none"
    /\ storeOps' = <<>>
    /\ UNCHANGED <<phase, now, activeTab, generatedPrompt, pendingResizes, sceneVars,
                   genVars, editBaseImage, standaloneEditPrompt, editedImage, histVars,
                   countVars>>
    /\ UNCHANGED otherVars

\* the edit request rejects
editRejected(err) ==
    /\ editRequest # null
    /\ editError' = err
    /\ editLoading' = FALSE
    /\ editRequest' = null
    /\ lastClick' = "none"
    /\ storeOps' = <<>>
    /\ UNCHANGED <<phase, now, activeTab, generatedPrompt, pendingResizes, sceneVars,
                   genVars, editBaseImage, standaloneEditPrompt, editedImage, histVars,
                   countVars>>
    /\ UNCHANGED otherVars

\* mutant of newHistoryItem: the result is stored at full size
newHistoryItemFullSize(job, dateNow) ==
    [id |-> <<job.type, dateNow>>,
     image |-> parseDataUrl(job.image),
     prompt |-> job.prompt,
     createdAt |-> dateNow]

\* the item handleAddToHistory builds once resizeImage has resolved
newHistoryItem(job, dateNow) ==
    [id |-> <<job.type, dateNow>>,
     image |-> parseDataUrl(resizeImage(job.image, HISTORY_IMAGE_SIZE)),
     prompt |-> job.prompt,
     createdAt |-> dateNow]

\* a call of handleAddToHistory, up to its await of resizeImage
handleAddToHistory(image, prompt, type) ==
    /\ phase = "ready"
    /\ results + deletes < MaxCalls
    /\ results' = results + 1
    /\ pendingResizes' = pendingResizes (+) SetToBag({Job(image, prompt, type)})
    /\ lastClick' = "none"
    /\ storeOps' = <<>>
    /\ UNCHANGED <<phase, now, activeTab, generatedPrompt, sceneVars, genVars, editVars,
                   histVars, issued, resizeFailed>>
    /\ UNCHANGED otherVars

\* mutant of handleAddToHistoryResolved: a save that throws is reported
\* through genError
handleAddToHistorySurfacesFailure(job) ==
    /\ BagIn(job, pendingResizes)
    /\ pendingResizes' = pendingResizes (-) SetToBag({job})
    /\ \E quotaExceeded \in BOOLEAN, dateNow \in now..(SessionStart + MaxTime) :
         LET list == addToHistory(history, newHistoryItem(job, dateNow))
             save == saveHistory(list, storage, quotaExceeded)
         IN /\ now' = dateNow
            /\ history' = list
            /\ storage' = save.storage
            /\ storeOps' = save.ops
            /\ genError' = IF quotaExceeded THEN [message |-> "Failed to save history"]
                           ELSE genError
    /\ appended' = appended + 1
    /\ lastClick' = "none"
    /\ UNCHANGED <<phase, activeTab, generatedPrompt, sceneVars, numberOfImages,
                   generatedImages, genLoading, genRequests, genBatchPrompt,
                   orphanRequests, editVars, deletes, countVars>>
    /\ UNCHANGED otherVars

\* resizeImage resolves: handleAddToHistory reads the clock, which never
\* runs backwards, and prepends the item; the list is committed and the
\* save effect runs
handleAddToHistoryResolved(job) ==
    /\ BagIn(job, pendingResizes)
    /\ pendingResizes' = pendingResizes (-) SetToBag({job})
    /\ \E quotaExceeded \in BOOLEAN, dateNow \in now..(SessionStart + MaxTime) :
         LET list == addToHistory(history, newHistoryItem(job, dateNow))
             save == saveHistory(list, storage, quotaExceeded)
         IN /\ now' = dateNow
            /\ history' = list
            /\ storage' = save.storage
            /\ storeOps' = save.ops
    /\ appended' = appended + 1
    /\ lastClick' = "none"
    /\ UNCHANGED <<phase, activeTab, generatedPrompt, sceneVars, genVars, editVars,
                   deletes, countVars>>
    /\ UNCHANGED otherVars

\* resizeImage rejects (the image does not load, or no 2d context): the
\* catch of handleAddToHistory logs and adds nothing
handleAddToHistoryRejected(job) ==
    /\ BagIn(job, pendingResizes)
    /\ pendingResizes' = pendingResizes (-) SetToBag({job})
    /\ resizeFailed' = resizeFailed + 1
    /\ lastClick' = "none"
    /\ storeOps' = <<>>
    /\ UNCHANGED <<phase, now, activeTab, generatedPrompt, sceneVars, genVars, editVars,
                   histVars, issued, results>>
    /\ UNCHANGED otherVars

\* an id no item of the list carries
AbsentId == <<"gen", 0>>

handleDeleteFromHistory(id) ==
    /\ phase = "ready"
    /\ results + deletes < MaxCalls
    /\ deletes' = deletes + 1
    /\ \E quotaExceeded \in BOOLEAN :
         LET list == deleteFromHistory(history, id)
             save == saveHistory(list, storage, quotaExceeded)
         IN /\ (quotaExceeded => Len(list) > 0)
            /\ history' = list
            /\ storage' = save.storage
            /\ storeOps' = save.ops
    /\ lastClick' = "none"
    /\ UNCHANGED <<phase, now, activeTab, generatedPrompt, pendingResizes, sceneVars,
                   genVars, editVars, appended, countVars>>
    /\ UNCHANGED otherVars

\* mutant of clearRendered: the footer is rendered for the empty list too
clearAlwaysRendered(list) == TRUE

\* the clear button of the history panel, which the panel renders only for
\* a non-empty list, then handleClearHistory with the user's answer to
\* window.confirm
clearRendered(list) == Len(list) > 0

handleClearHistory(confirmed) ==
    /\ phase = "ready"
    /\ lastClick' = "clear"
    /\ IF clearRendered(history) /\ confirmed
       THEN LET save == saveHistory(<<>>, storage, FALSE)
            IN /\ history' = <<>>
               /\ storage' = save.storage
               /\ storeOps' = save.ops
       ELSE /\ storeOps' = <<>>
            /\ UNCHANGED <<history, storage>>
    /\ UNCHANGED <<phase, now, activeTab, generatedPrompt, pendingResizes, sceneVars,
                   genVars, editVars, deletes, appended, countVars>>
    /\ UNCHANGED otherVars

\* ------------------------------------------------------------ scene inputs
\* String(n), for the counts that appear in placeholder names
String(n) == <<"0", "1", "2", "3", "4", "5", "6", "7", "8", "9">>[n + 1]

\* t('generate.characters.placeholder') and t('generate.objects.placeholder')
placeholder(listName) == IF listName = "characters" THEN "Character" ELSE "Object"

\* prev => [...prev, { id: Date.now(), name: `${placeholder} ${prev.length + 1}`, image: null }]
onAddUpdater(prev, id, text) ==
    prev \o << [id |-> id, name |-> <<text, " ", String(Len(prev) + 1)>>, image |-> null] >>

\* prev => prev.filter(c => c.id !== id)
onRemoveUpdater(prev, id) ==
    LET keep(c) == c.id # id IN SelectSeq(prev, keep)

\* prev => prev.map(c => c.id === id ? { ...c, name } : c)
onNameChangeUpdater(prev, id, name) ==
    [i \in 1..Len(prev) |-> IF prev[i].id = id THEN [prev[i] EXCEPT !.name = name]
                                              ELSE prev[i]]

\* prev => prev.map(c => c.id === id ? { ...c, image } : c)
onImageUploadUpdater(prev, id, image) ==
    [i \in 1..Len(prev) |-> IF prev[i].id = id THEN [prev[i] EXCEPT !.image = image]
                                              ELSE prev[i]]

\* mutant of handleReorder: the two positions are exchanged
handleReorderSwaps(list, startIndex, endIndex) ==
    [i \in 1..Len(list) |-> IF i = startIndex + 1 THEN list[endIndex + 1]
                            ELSE IF i = endIndex + 1 THEN list[startIndex + 1]
                            ELSE list[i]]

\* what a destructuring of an empty array binds
undefined == [undefined |-> TRUE]

\* Array.prototype.splice: the position a start index stands for in an
\* array of length len (a negative index counts from the end)
spliceStart(start, len) ==
    IF start < 0 THEN (IF len + start < 0 THEN 0 ELSE len + start)
    ELSE IF start > len THEN len ELSE start

\* handleReorder: the list it hands to setList; indices count from 0.  A
\* start index at or past the end removes nothing, and removed is undefined
handleReorder(list, startIndex, endIndex) ==
    LET start == spliceStart(startIndex, Len(list))
        removed == IF start < Len(list) THEN list[start + 1] ELSE undefined
        result == SubSeq(list, 1, start) \o SubSeq(list, start + 2, Len(list))
        end == spliceStart(endIndex, Len(result))
    IN SubSeq(result, 1, end) \o <<removed>> \o SubSeq(result, end + 1, Len(result))

elementList(listName) == IF listName = "characters" THEN characters ELSE additionalElements

\* setCharacters or setAdditionalElements
setElementList(listName, value) ==
    /\ characters' = IF listName = "characters" THEN value ELSE characters
    /\ additionalElements' = IF listName = "objects" THEN value ELSE additionalElements

\* mutant of promptGeneratorEffect: characters is missing from the
\* dependency list, the effect computes from the list it last saw
promptGeneratorEffectStaleCharacters ==
    generatedPrompt' =
        IF activeTab' # "generate" THEN generatedPrompt
        ELSE IF characters' # characters THEN generatedPrompt
        ELSE promptGenerator(characters', additionalElements', sceneDescription',
                             sceneLocationImage', styleImage', aspectRatio',
                             artisticStyle', lightingStyle', cameraPerspective')

\* the prompt generator effect after a commit that changed one of its
\* dependencies
promptGeneratorEffect ==
    generatedPrompt' =
        IF activeTab' # "generate" THEN generatedPrompt
        ELSE promptGenerator(characters', additionalElements', sceneDescription',
                             sceneLocationImage', styleImage', aspectRatio',
                             artisticStyle', lightingStyle', cameraPerspective')

\* what the handlers of the generate tab's inputs have in common: the tab
\* is rendered and not covered by the editor's modal, and nothing outside
\* the scene changes
sceneEditStep ==
    /\ phase = "ready"
    /\ activeTab = "generate"
    /\ ~isEditModalOpen
    /\ edits < MaxEdits
    /\ edits' = edits + 1
    /\ lastClick' = "none"
    /\ storeOps' = <<>>
    /\ UNCHANGED <<phase, activeTab, pendingResizes, genVars, editVars, histVars,
                   countVars, editorVars, resizeVars, dropEvent>>

\* the same, for a handler that leaves every item mounted
sceneEdit == sceneEditStep /\ UNCHANGED padVars

onAdd(listName) ==
    /\ sceneEdit
    /\ \E dateNow \in now..(SessionStart + MaxTime) :
         /\ now' = dateNow
         /\ setElementList(listName,
                           onAddUpdater(elementList(listName), dateNow, placeholder(listName)))
    /\ UNCHANGED <<sceneDescription, sceneLocationImage, styleImage, aspectRatio,
                   artisticStyle, lightingStyle, cameraPerspective>>
    /\ promptGeneratorEffect

\* the removed item is unmounted, and its ratio editor with it
onRemove(listName, id) ==
    /\ sceneEditStep
    /\ \E i \in DOMAIN elementList(listName) : elementList(listName)[i].id = id
    /\ setElementList(listName, onRemoveUpdater(elementList(listName), id))
    /\ LET ofItem(load) == load.listName = listName /\ load.id = id
       IN /\ loads' = [i \in DOMAIN loads |->
                          IF ofItem(loads[i]) THEN unmounted(loads[i]) ELSE loads[i]]
          /\ isProcessing' = IF \E i \in DOMAIN loads : ofItem(loads[i]) /\ loads[i].mounted
                              THEN FALSE ELSE isProcessing
    /\ UNCHANGED <<editedElem, isEditModalOpen, padReport>>
    /\ UNCHANGED <<now, sceneDescription, sceneLocationImage, styleImage, aspectRatio,
                   artisticStyle, lightingStyle, cameraPerspective>>
    /\ promptGeneratorEffect

\* commitName of the item's input: only called when the name differs
onNameChange(listName, id, name) ==
    /\ sceneEdit
    /\ \E i \in DOMAIN elementList(listName) :
         elementList(listName)[i].id = id /\ elementList(listName)[i].name # name
    /\ setElementList(listName, onNameChangeUpdater(elementList(listName), id, name))
    /\ UNCHANGED <<now, sceneDescription, sceneLocationImage, styleImage, aspectRatio,
                   artisticStyle, lightingStyle, cameraPerspective>>
    /\ promptGeneratorEffect

\* the item's uploader: a file was read (image) or the image removed (null)
onImageUpload(listName, id, image) ==
    /\ sceneEdit
    /\ \E i \in DOMAIN elementList(listName) :
         elementList(listName)[i].id = id /\ elementList(listName)[i].image # image
    /\ setElementList(listName, onImageUploadUpdater(elementList(listName), id, image))
    /\ UNCHANGED <<now, sceneDescription, sceneLocationImage, styleImage, aspectRatio,
                   artisticStyle, lightingStyle, cameraPerspective>>
    /\ promptGeneratorEffect

\* handleDrop of one of the list's items on another of its items
onReorder(listName, startIndex, endIndex) ==
    /\ sceneEdit
    /\ startIndex \in 0..(Len(elementList(listName)) - 1)
    /\ endIndex \in 0..(Len(elementList(listName)) - 1)
    /\ startIndex # endIndex
    /\ setElementList(listName, handleReorder(elementList(listName), startIndex, endIndex))
    /\ UNCHANGED <<now, sceneDescription, sceneLocationImage, styleImage, aspectRatio,
                   artisticStyle, lightingStyle, cameraPerspective>>
    /\ promptGeneratorEffect

setSceneLocationImage(image) ==
    /\ sceneEdit
    /\ image # sceneLocationImage
    /\ sceneLocationImage' = image
    /\ UNCHANGED <<now, characters, additionalElements, sceneDescription, styleImage,
                   aspectRatio, artisticStyle, lightingStyle, cameraPerspective>>
    /\ promptGeneratorEffect

setStyleImage(image) ==
    /\ sceneEdit
    /\ image # styleImage
    /\ styleImage' = image
    /\ UNCHANGED <<now, characters, additionalElements, sceneDescription,
                   sceneLocationImage, aspectRatio, artisticStyle, lightingStyle,
                   cameraPerspective>>
    /\ promptGeneratorEffect

setAspectRatio(value) ==
    /\ sceneEdit
    /\ value # aspectRatio
    /\ aspectRatio' = value
    /\ UNCHANGED <<now, characters, additionalElements, sceneDescription,
                   sceneLocationImage, styleImage, artisticStyle, lightingStyle,
                   cameraPerspective>>
    /\ promptGeneratorEffect

setArtisticStyle(value) ==
    /\ sceneEdit
    /\ value # artisticStyle
    /\ artisticStyle' = value
    /\ UNCHANGED <<now, characters, additionalElements, sceneDescription,
                   sceneLocationImage, styleImage, aspectRatio, lightingStyle,
                   cameraPerspective>>
    /\ promptGeneratorEffect

setLightingStyle(value) ==
    /\ sceneEdit
    /\ value # lightingStyle
    /\ lightingStyle' = value
    /\ UNCHANGED <<now, characters, additionalElements, sceneDescription,
                   sceneLocationImage, styleImage, aspectRatio, artisticStyle,
                   cameraPerspective>>
    /\ promptGeneratorEffect

setCameraPerspective(value) ==
    /\ sceneEdit
    /\ value # cameraPerspective
    /\ cameraPerspective' = value
    /\ UNCHANGED <<now, characters, additionalElements, sceneDescription,
                   sceneLocationImage, styleImage, aspectRatio, artisticStyle,
                   lightingStyle>>
    /\ promptGeneratorEffect

\* the history store, with handleAddToHistory called on any result
Next ==
    \/ Mount
    \/ \E image \in ResultImages, type \in {"gen", "edit"} :
         handleAddToHistory(image, <<"prompt">>, type)
    \/ \E job \in DOMAIN pendingResizes : handleAddToHistoryResolved(job)
    \/ \E job \in DOMAIN pendingResizes : handleAddToHistoryRejected(job)
    \/ \E id \in {history[i].id : i \in DOMAIN history} \cup {AbsentId} :
         handleDeleteFromHistory(id)
    \/ \E confirmed \in BOOLEAN : handleClearHistory(confirmed)

Spec == Init /\ [][Next]_vars

\* a session that starts with nothing stored: the generate and edit tabs
\* and the history appends they cause
InitSession == Init /\ storage = null

NextSession ==
    \/ Mount
    \/ \E tabName \in {"generate", "edit"} : setActiveTab(tabName)
    \/ \E value \in Descriptions : setSceneDescription(value)
    \/ \E n \in 1..MaxNumberOfImages : n <= MaxRequests /\ setNumberOfImages(n)
    \/ handleGenerateClick
    \/ \E i \in 1..MaxNumberOfImages, image \in ResultImages :
         generateStoryImageResolved(i, image)
    \/ \E i \in 1..MaxNumberOfImages, err \in ErrorMessages :
         generateStoryImageRejected(i, err)
    \/ orphanSettled
    \/ \E value \in EditInstructions : setStandaloneEditPrompt(value)
    \/ setEditBaseImage(UploadedImage)
    \/ handleApplyStandaloneEdit
    \/ \E image \in ResultImages : editResolved(image)
    \/ \E err \in ErrorMessages : editRejected(err)
    \/ \E job \in DOMAIN pendingResizes : handleAddToHistoryResolved(job)
    \/ \E job \in DOMAIN pendingResizes : handleAddToHistoryRejected(job)

SpecSession == InitSession /\ [][NextSession]_vars

\* the names a user gives: blank, plain, and padded with whitespace
Names == {<<" ">>, <<"x">>, <<" ", "y", " ">>}

\* what is typed into the scene description
SceneDescriptions == {<<>>, <<" ">>, <<"a">>, <<" ", "b", " ">>}

ids(list) == {list[i].id : i \in DOMAIN list}

\* a session on the generate tab: the scene is edited and generations are
\* triggered, whose requests fail
NextScene ==
    \/ Mount
    \/ \E tabName \in {"generate", "edit"} : setActiveTab(tabName)
    \/ \E value \in Descriptions \cup {<<" ">>} : setSceneDescription(value)
    \/ \E listName \in {"characters", "objects"} : onAdd(listName)
    \/ \E listName \in {"characters", "objects"}, id \in ids(characters) \cup ids(additionalElements) :
         onRemove(listName, id)
    \/ \E listName \in {"characters", "objects"}, id \in ids(characters) \cup ids(additionalElements),
          name \in Names : onNameChange(listName, id, name)
    \/ \E listName \in {"characters", "objects"}, id \in ids(characters) \cup ids(additionalElements),
          image \in {null, UploadedImage} : onImageUpload(listName, id, image)
    \/ \E listName \in {"characters", "objects"}, startIndex \in 0..(MaxEdits + 1),
          endIndex \in 0..(MaxEdits + 1) : onReorder(listName, startIndex, endIndex)
    \/ \E image \in {null, UploadedImage} : setSceneLocationImage(image)
    \/ \E image \in {null, UploadedImage} : setStyleImage(image)
    \/ \E i \in DOMAIN ASPECT_RATIOS : setAspectRatio(ASPECT_RATIOS[i])
    \/ \E i \in DOMAIN ARTISTIC_STYLES : setArtisticStyle(ARTISTIC_STYLES[i])
    \/ \E i \in DOMAIN LIGHTING_STYLES : setLightingStyle(LIGHTING_STYLES[i])
    \/ \E i \in DOMAIN CAMERA_PERSPECTIVES : setCameraPerspective(CAMERA_PERSPECTIVES[i])
    \/ handleGenerateClick
    \/ \E i \in 1..MaxNumberOfImages, err \in ErrorMessages :
         generateStoryImageRejected(i, err)

SpecScene == InitSession /\ [][NextScene]_vars

\* the id of the i-th item of a list: the two initial ids, then the
\* Date.now() of an add
ElementId(i) == IF i <= 2 THEN i ELSE SessionStart

\* character lists a session can have built: each item named from Names,
\* with or without an image
CharacterLists ==
    UNION { { [i \in 1..n |-> [id |-> ElementId(i), name |-> f[i].name, image |-> f[i].image]] :
              f \in [1..n -> [name : Names, image : {null, UploadedImage}]] } :
            n \in 0..MaxCharacters }

\* object lists a session can have built
ElementLists ==
    { <<>>,
      << [id |-> SessionStart, name |-> <<"x">>, image |-> UploadedImage] >>,
      << [id |-> SessionStart, name |-> <<" ">>, image |-> UploadedImage] >>,
      << [id |-> SessionStart, name |-> <<"x">>, image |-> UploadedImage],
         [id |-> SessionStart + 1, name |-> <<"y">>, image |-> null] >> }

\* the mounted app on the generate tab, idle, with a scene drawn from the
\* lists and reference images above and its prompt composed
InitCompose ==
    /\ phase = "ready"
    /\ storage = null
    /\ characters \in CharacterLists
    /\ additionalElements \in ElementLists
    /\ sceneDescription = <<>>
    /\ sceneLocationImage \in {null, UploadedImage}
    /\ styleImage \in {null, UploadedImage}
    /\ aspectRatio = ASPECT_RATIOS[1]
    /\ artisticStyle = ARTISTIC_STYLES[1]
    /\ lightingStyle = LIGHTING_STYLES[1]
    /\ cameraPerspective = CAMERA_PERSPECTIVES[1]
    /\ generatedPrompt = currentPrompt
    /\ InitRest
    /\ InitTools

\* the prompt generator applied to those scenes: the description is typed
\* and items are dragged to other positions
NextCompose ==
    \/ \E value \in SceneDescriptions : setSceneDescription(value)
    \/ \E listName \in {"characters", "objects"}, startIndex \in 0..MaxCharacters,
          endIndex \in 0..MaxCharacters : onReorder(listName, startIndex, endIndex)

SpecCompose == InitCompose /\ [][NextCompose]_vars

\* ------------------------------------------------------------------ claims
\* what the storage key holds when it mirrors the list h
Mirror(h) == IF Len(h) > 0 THEN JSONstringify(JSONarray(h)) ELSE null

\* C1: the in-memory history never holds more than MAX_HISTORY_ITEMS items,
\* whatever was stored at startup and whatever was appended, removed or
\* cleared since.
C1_HistoryAtMostTen == Len(history) <= MAX_HISTORY_ITEMS

\* a session that loaded a stored array longer than the cap and then
\* appended to the full list
C1_Witness ==
    /\ phase = "ready"
    /\ appended > 0
    /\ Len(history) = MAX_HISTORY_ITEMS
    /\ history[2] = OldItem(MaxStored)

\* C2: an append to a list of MAX_HISTORY_ITEMS items leaves
\* MAX_HISTORY_ITEMS items: the new one in front, then the previous list
\* without its last item, and that evicted item is no newer than any item
\* that stays.
C2_AppendEvictsOldest ==
    [][(appended' = appended + 1 /\ Len(history) = MAX_HISTORY_ITEMS) =>
         /\ Len(history') = MAX_HISTORY_ITEMS
         /\ history'[1].createdAt = now'
         /\ \A i \in 2..MAX_HISTORY_ITEMS : history'[i] = history[i - 1]
         /\ \A i \in 1..(MAX_HISTORY_ITEMS - 1) :
              history[MAX_HISTORY_ITEMS].createdAt <= history[i].createdAt]_vars

\* the stored ten-item list after one append: its oldest item is gone
C2_Witness ==
    /\ appended = 1
    /\ deletes = 0
    /\ Len(history) = MAX_HISTORY_ITEMS
    /\ history[2] = OldItem(MAX_HISTORY_ITEMS)
    /\ history[MAX_HISTORY_ITEMS] = OldItem(2)

\* C3: right after a history mutation whose storage write did not throw,
\* the key holds the JSON text of the whole list when the list is
\* non-empty and is absent when it is empty; once the app is mounted the
\* key never holds the text of an empty array.
C3_StorageMirrorsHistory ==
    /\ (storeOps # <<>> /\ storeOps[Len(storeOps)] # "setItem throws")
         => storage = Mirror(history)
    /\ phase = "ready" => storage # JSONstringify(JSONarray(<<>>))

\* a deletion has emptied the list and the key is gone
C3_Witness ==
    /\ deletes > 0
    /\ history = <<>>
    /\ storeOps = <<"removeItem">>

CorruptStored(stored) ==
    /\ stored # null
    /\ \/ JSONparse(stored).throws
       \/ ~ArrayIsArray(JSONparse(stored).value)

\* C5: when the stored value is malformed JSON or JSON of a non-array, the
\* mount leaves an empty history and no stored key.
C5_CorruptStoredDiscarded ==
    [][(phase = "init" /\ phase' = "ready" /\ CorruptStored(storage)) =>
         /\ history' = <<>>
         /\ storage' = null]_vars

\* mounted from text that JSON.parse rejected: the catch and the save effect
\* both removed the key
C5_Witness ==
    /\ phase = "ready"
    /\ storeOps = <<"removeItem", "removeItem">>
    /\ history = <<>>
    /\ storage = null

\* the positions of h that hold an item whose id is not id
KeptPositions(h, id) == {i \in DOMAIN h : h[i].id # id}

\* h2 is h without the items whose id is id, the others in their order
RemovedById(h, h2, id) ==
    LET kept == KeptPositions(h, id)
        nth(k) == CHOOSE j \in kept : Cardinality({m \in kept : m <= j}) = k
    IN /\ Len(h2) = Cardinality(kept)
       /\ \A k \in 1..Len(h2) : h2[k] = h[nth(k)]

\* C7: a removal by id takes the items with that id out of the list and
\* keeps every other item, in the same relative order; for an id no item
\* carries the list is the same afterwards.
C7_RemoveById ==
    [][deletes' = deletes + 1 =>
         \E id \in {history[i].id : i \in DOMAIN history} \cup {AbsentId} :
            /\ RemovedById(history, history', id)
            /\ (KeptPositions(history, id) = DOMAIN history => history' = history)]_vars

\* an item from the middle of the stored list was removed
C7_Witness ==
    /\ deletes = 1
    /\ appended = 0
    /\ Len(history) = MAX_HISTORY_ITEMS - 1
    /\ history[1] = OldItem(MAX_HISTORY_ITEMS)
    /\ history[MAX_HISTORY_ITEMS - 1] = OldItem(1)

Min(a, b) == IF a < b THEN a ELSE b
Max(a, b) == IF a < b THEN b ELSE a

\* list is prev with one new item, created at the clock reading, in front,
\* cut to the cap
Prepended(prev, list, reading) ==
    /\ Len(list) = Min(Len(prev) + 1, MAX_HISTORY_ITEMS)
    /\ list[1].createdAt = reading
    /\ \A i \in 2..Len(list) : list[i] = prev[i - 1]

\* C6: when the setItem of a save throws, the list keeps the appended item,
\* genError and editError are what they were, and every later change of
\* the list is again followed by a write to the store.
C6_WriteFailureSwallowed ==
    [][/\ (\E k \in DOMAIN storeOps' : storeOps'[k] = "setItem throws") =>
            /\ Prepended(history, history', now')
            /\ genError' = genError
            /\ editError' = editError
       /\ history' # history => storeOps' # <<>>]_vars

\* a second append wrote again after the first write had thrown, and threw too
C6_Witness ==
    /\ appended = 2
    /\ Len(history) = 2
    /\ storage = null
    /\ storeOps = <<"setItem throws">>

\* the handleAddToHistory calls for generate results that await their resize
GenJobs(bag) ==
    BagCardinality([job \in {j \in DOMAIN bag : j.type = "gen"} |-> bag[job]])

\* C8: while a batch is loading no image is shown and no history append is
\* started for it; when the batch ends, either every request has resolved,
\* all the results are shown and one append per result is started, or a
\* request has rejected, the error message is set, no image is shown and no
\* append is started.
C8_BatchAllOrNothing ==
    [][/\ genLoading' =>
            /\ generatedImages' = <<>>
            /\ GenJobs(pendingResizes') <= GenJobs(pendingResizes)
       /\ (genLoading /\ ~genLoading') =>
            \/ /\ genError' = null
               /\ Cardinality({j \in DOMAIN genRequests : genRequests[j] = Pending}) = 1
               /\ Len(generatedImages') = Len(genRequests)
               /\ \A j \in DOMAIN genRequests :
                    genRequests[j] # Pending => generatedImages'[j] = genRequests[j]
               /\ GenJobs(pendingResizes') = GenJobs(pendingResizes) + Len(genRequests)
            \/ /\ genError' # null
               /\ generatedImages' = <<>>
               /\ pendingResizes' = pendingResizes
               /\ history' = history]_vars

\* a batch of several requests has failed while another of its requests
\* was still in flight
C8_Witness ==
    /\ ~genLoading
    /\ genError # null
    /\ orphanRequests > 0
    /\ generatedImages = <<>>
    /\ history = <<>>

\* C9: a click on generate while genLoading, or on apply while editLoading,
\* issues no request and leaves the requests in flight as they are.
C9_NoRequestWhileLoading ==
    [][/\ (lastClick' = "generate" /\ genLoading) =>
            /\ genLoading'
            /\ issued' = issued
            /\ genRequests' = genRequests
            /\ orphanRequests' = orphanRequests
            /\ editRequest' = editRequest
       /\ (lastClick' = "edit" /\ editLoading) =>
            /\ editLoading'
            /\ issued' = issued
            /\ genRequests' = genRequests
            /\ orphanRequests' = orphanRequests
            /\ editRequest' = editRequest]_vars

\* generate was clicked while a batch of two was half done
C9_Witness ==
    /\ lastClick = "generate"
    /\ genLoading
    /\ \E j \in DOMAIN genRequests : genRequests[j] # Pending
    /\ \E j \in DOMAIN genRequests : genRequests[j] = Pending

C11_NewestFirst ==
    \A i \in 1..(Len(history) - 1) : history[i].createdAt >= history[i + 1].createdAt

\* two results were appended at different clock readings in a session that
\* started with nothing to load: the later one is in front
C11_Witness ==
    /\ appended = 2
    /\ Len(history) = 2
    /\ history[2].createdAt >= SessionStart
    /\ history[1].createdAt > history[2].createdAt
    /\ history[1].image.base64.pix # history[2].image.base64.pix

\* C12: the prompt is a function of the scene state alone: whenever the
\* generate tab is shown the prompt preview is the prompt composed from the
\* current characters, objects, description, reference images and select
\* values (so equal scenes show equal prompts), and the prompt a generate
\* click sends is the one composed from the scene at the click, whatever is
\* edited while the requests are in flight.
C12_PromptIsComposeOfScene ==
    /\ []((phase = "ready" /\ activeTab = "generate") => generatedPrompt = currentPrompt)
    /\ [][issued' > issued => genBatchPrompt' = currentPrompt]_vars
    /\ [][(genLoading /\ genLoading') => genBatchPrompt' = genBatchPrompt]_vars

\* a character got an image, generate was clicked, and the scene was edited
\* again while the request was in flight: the preview has moved on, the
\* prompt sent has not
C12_Witness ==
    /\ activeTab = "generate"
    /\ genLoading
    /\ hasCharacterImage
    /\ genBatchPrompt # generatedPrompt
    /\ genBatchPrompt # <<>>

\* the prompt preview is up to date: the app is mounted and shows the
\* generate tab
PromptShown == phase = "ready" /\ activeTab = "generate"

Contains(s, piece) == \E i \in DOMAIN s : s[i] = piece
Occurrences(s, piece) == Cardinality({i \in DOMAIN s : s[i] = piece})

\* the first position of piece in s, 0 when it does not occur
Position(s, piece) ==
    IF Contains(s, piece)
    THEN CHOOSE i \in DOMAIN s : s[i] = piece /\ \A j \in 1..(i - 1) : s[j] # piece
    ELSE 0

\* sub is the part of s that starts after its first k pieces
IsAt(sub, s, k) == k + Len(sub) <= Len(s) /\ SubSeq(s, k + 1, k + Len(sub)) = sub
Occurs(sub, s) == \E k \in 0..Len(s) : IsAt(sub, s, k)

\* the fixed text each clause starts with
LeadMarker == "Generate a cinematic image in a "
SceneMarker == "The scene is: "
CompositionMarker == "Use a "
LightingMarker == "The lighting is "
CharactersMarker == "Integrate the characters "
ObjectsMarker == "Integrate the objects "
LocationSentence == "Use the provided \"Scene Location\" image as the background environment."
StyleSentence == "Use the \"Style Reference\" image to influence the overall visual style and color palette."
TransparencySentence == "CRITICAL INSTRUCTION: fill transparent padding by extending the scene."

\* C13 as stated: the scene-description clause is in the prompt exactly
\* when the description is non-blank after trimming; for an empty or
\* whitespace-only description there is no such clause.
C13_SceneClauseIffNonBlank ==
    PromptShown =>
        (Contains(generatedPrompt, SceneMarker) <=> trim(sceneDescription) # <<>>)

\* the trimmed names of the items that have an image and a non-blank name,
\* in the order of the list
RECURSIVE Qualifying(_)
Qualifying(list) ==
    IF list = <<>> THEN <<>>
    ELSE (IF Head(list).image # null /\ trim(Head(list).name) # <<>>
          THEN << trim(Head(list).name) >> ELSE <<>>)
         \o Qualifying(Tail(list))

\* names, each in parentheses, separated by a comma and a space
RECURSIVE Listing(_)
Listing(names) ==
    IF names = <<>> THEN <<>>
    ELSE <<"(">> \o Head(names) \o <<")">>
         \o (IF Len(names) > 1 THEN <<", ">> \o Listing(Tail(names)) ELSE <<>>)

SubClause(marker, list) ==
    <<marker>> \o Listing(Qualifying(list)) \o <<" from their reference images.">>

\* the sub-clause of the list is in the prompt once, or not at all when no
\* item qualifies
ListedExactly(marker, list) ==
    IF Qualifying(list) = <<>>
    THEN ~Contains(generatedPrompt, marker)
    ELSE /\ Occurrences(generatedPrompt, marker) = 1
         /\ Occurs(SubClause(marker, list), generatedPrompt)

\* C14: the characters sub-clause lists exactly the characters with an
\* image and a non-blank name, in list order, each trimmed name in
\* parentheses, separated by commas, and is absent when no character
\* qualifies; the objects sub-clause follows the same rule.
C14_NamedAndImagedListed ==
    PromptShown =>
        /\ ListedExactly(CharactersMarker, characters)
        /\ ListedExactly(ObjectsMarker, additionalElements)

\* two characters qualify, the first under a name typed with spaces around
\* it, and an unnamed object with an image is left out
C14_Witness ==
    /\ PromptShown
    /\ Len(characters) = 2
    /\ characters[1].name = <<" ", "y", " ">>
    /\ Qualifying(characters) = << <<"y">>, <<"x">> >>
    /\ Len(additionalElements) = 1
    /\ additionalElements[1].image # null
    /\ Qualifying(additionalElements) = <<>>

AnyImage(list) == \E i \in DOMAIN list : list[i].image # null

\* C15: the transparency instruction is in the prompt exactly when some
\* character or object has an image, whatever the names: an unnamed
\* character with an image brings the instruction and is not listed.
C15_TransparencyIffAnyImage ==
    PromptShown =>
        (Contains(generatedPrompt, TransparencySentence)
           <=> (AnyImage(characters) \/ AnyImage(additionalElements)))

\* the only image of the scene belongs to a character with a blank name:
\* the instruction is there, the characters sub-clause is not
C15_Witness ==
    /\ PromptShown
    /\ Len(characters) = 1
    /\ characters[1].image # null
    /\ trim(characters[1].name) = <<>>
    /\ additionalElements = <<>>
    /\ Contains(generatedPrompt, TransparencySentence)
    /\ ~Contains(generatedPrompt, CharactersMarker)

\* C16: a reorder of the characters rewrites the list of names inside the
\* characters sub-clause to the new list order, the same names as before,
\* and leaves every piece of the prompt before and after that list as it
\* was.
C16_ReorderMovesNamesOnly ==
    [][(edits' = edits + 1 /\ characters' # characters) =>
         LET before == Listing(Qualifying(characters))
             after == Listing(Qualifying(characters'))
         IN /\ BagOfSeq(Qualifying(characters')) = BagOfSeq(Qualifying(characters))
            /\ \E k \in 0..Len(generatedPrompt) :
                 /\ IsAt(before, generatedPrompt, k)
                 /\ IsAt(after, generatedPrompt', k)
                 /\ SubSeq(generatedPrompt', 1, k) = SubSeq(generatedPrompt, 1, k)
                 /\ SubSeq(generatedPrompt', k + Len(after) + 1, Len(generatedPrompt'))
                      = SubSeq(generatedPrompt, k + Len(before) + 1, Len(generatedPrompt))]_vars

\* the second of two named characters with images was dragged to the front
\* and the prompt names it first
C16_Witness ==
    /\ PromptShown
    /\ edits = 1
    /\ Len(characters) = 2
    /\ characters[1].id = 2
    /\ Qualifying(characters) = << <<"y">>, <<"x">> >>
    /\ Occurs(<<CharactersMarker, "(", "y", ")", ", ", "(", "x", ")">>, generatedPrompt)

\* C17: the prompt is its present clauses in the order lead, scene
\* description, composition, lighting, characters, objects, location, style
\* reference, transparency, each clause once, joined by one space with
\* none at the ends; lead, composition and lighting are always present
\* and carry the selected style, perspective, ratio and lighting; the
\* three integration sentences are absent when nothing qualifies; the
\* location sentence is present exactly when a location image is set and
\* the style sentence exactly when a style image is set.
C17_ClausesInOrder ==
    PromptShown =>
        LET p == generatedPrompt
            markers == <<LeadMarker, SceneMarker, CompositionMarker, LightingMarker,
                         CharactersMarker, ObjectsMarker, LocationSentence,
                         StyleSentence, TransparencySentence>>
            at == [k \in DOMAIN markers |-> Position(p, markers[k])]
            present == {k \in DOMAIN markers : at[k] # 0}
        IN /\ IsAt(<<LeadMarker, artisticStyle, " style.">>, p, 0)
           /\ Occurs(<<CompositionMarker, cameraPerspective, " with a ">> \o aspectRatio
                       \o <<" aspect ratio.">>, p)
           /\ Occurs(<<LightingMarker, lightingStyle, ".">>, p)
           /\ \A k \in DOMAIN markers : Occurrences(p, markers[k]) <= 1
           /\ \A j, k \in present : j < k => at[j] < at[k]
           /\ \A k \in present \ {1} : p[at[k] - 1] = " " /\ p[at[k] - 2] # " "
           /\ p[Len(p)] # " "
           /\ (at[5] # 0 <=> Qualifying(characters) # <<>>)
           /\ (at[6] # 0 <=> Qualifying(additionalElements) # <<>>)
           /\ (at[7] # 0 <=> sceneLocationImage # null)
           /\ (at[8] # 0 <=> styleImage # null)

\* a scene with a description, a listed character, a listed object, a
\* location image and a style image: all nine clauses are in the prompt
C17_Witness ==
    /\ PromptShown
    /\ \A piece \in {LeadMarker, SceneMarker, CompositionMarker, LightingMarker,
                     CharactersMarker, ObjectsMarker, LocationSentence, StyleSentence,
                     TransparencySentence} : Contains(generatedPrompt, piece)
    /\ sceneDescription = <<" ", "b", " ">>

\* ------------------------------------------------- ratio editor and resize
\* Numbers that parseFloat and the division produce are NaN or a
\* non-negative rational num / den.  The strings drawn below hold digits,
\* ".", ":" and a letter; a sign, an exponent or "Infinity" is never drawn.
NaN == [nan |-> TRUE, num |-> 0, den |-> 1]
number(n, d) == [nan |-> FALSE, num |-> n, den |-> d]

\* a === b on numbers
equals(a, b) == ~a.nan /\ ~b.nan /\ a.num * b.den = b.num * a.den

Digits == <<"0", "1", "2", "3", "4", "5", "6", "7", "8", "9">>
isDigit(c) == \E i \in 1..10 : Digits[i] = c
digitValue(c) == (CHOOSE i \in 1..10 : Digits[i] = c) - 1

RECURSIVE pow10(_)
pow10(n) == IF n = 0 THEN 1 ELSE 10 * pow10(n - 1)

\* the longest prefix of s made of decimal digits
RECURSIVE digitsPrefix(_)
digitsPrefix(s) ==
    IF s # <<>> /\ isDigit(Head(s)) THEN <<Head(s)>> \o digitsPrefix(Tail(s)) ELSE <<>>

\* the value of a string of decimal digits
RECURSIVE decimal(_)
decimal(ds) ==
    IF ds = <<>> THEN 0
    ELSE 10 * decimal(SubSeq(ds, 1, Len(ds) - 1)) + digitValue(ds[Len(ds)])

\* String.prototype.split on a one-character separator
RECURSIVE split(_, _)
split(s, sep) ==
    IF \A i \in 1..Len(s) : s[i] # sep THEN <<s>>
    ELSE LET i == CHOOSE k \in 1..Len(s) : s[k] = sep /\ \A j \in 1..(k - 1) : s[j] # sep
         IN <<SubSeq(s, 1, i - 1)>> \o split(SubSeq(s, i + 1, Len(s)), sep)

\* parseFloat: leading whitespace is skipped, then the longest prefix that
\* is a decimal literal is converted; what follows it is ignored, and a
\* string with no such prefix gives NaN
parseFloat(string) ==
    LET s == trimStart(string)
        int == digitsPrefix(s)
        rest == SubSeq(s, Len(int) + 1, Len(s))
        frac == IF rest # <<>> /\ Head(rest) = "." THEN digitsPrefix(Tail(rest)) ELSE <<>>
    IN IF int = <<>> /\ frac = <<>> THEN NaN
       ELSE number(decimal(int) * pow10(Len(frac)) + decimal(frac), pow10(Len(frac)))

\* a / b for a divisor that is not zero
divide(a, b) ==
    IF a.nan \/ b.nan THEN NaN ELSE number(a.num * b.den, a.den * b.num)

\* parseFloat never throws, so the catch branch is never taken
parseAspectRatio(string) ==
    LET parts == split(string, ":")
    IN IF Len(parts) # 2 THEN number(16, 9)
       ELSE LET num == parseFloat(parts[1])
                den == parseFloat(parts[2])
            IN IF ~den.nan /\ den.num = 0 THEN number(16, 9) ELSE divide(num, den)

\* the editor's onload handler draws at the top-left corner
paddedCanvasTopLeft(image, aspectRatioValue) ==
    LET originalWidth == image.base64.w
        originalHeight == image.base64.h
        target == parseAspectRatio(aspectRatioValue)
        wider == originalWidth * target.den > originalHeight * target.num
        width == IF wider THEN originalWidth ELSE round(originalHeight * target.num, target.den)
        height == IF wider THEN round(originalWidth * target.den, target.num) ELSE originalHeight
    IN [width |-> width, height |-> height,
        drawn |-> << [pix |-> image.base64.pix, x2 |-> 0, y2 |-> 0,
                      w |-> originalWidth, h |-> originalHeight] >>]

\* mutant of paddedCanvas: the new side is rounded up, not to nearest
paddedCanvasRoundsUp(image, aspectRatioValue) ==
    LET originalWidth == image.base64.w
        originalHeight == image.base64.h
        target == parseAspectRatio(aspectRatioValue)
        wider == originalWidth * target.den > originalHeight * target.num
        width == IF wider THEN originalWidth
                 ELSE (originalHeight * target.num + target.den - 1) \div target.den
        height == IF wider THEN (originalWidth * target.den + target.num - 1) \div target.num
                  ELSE originalHeight
    IN [width |-> width, height |-> height,
        drawn |-> << [pix |-> image.base64.pix, x2 |-> width - originalWidth,
                      y2 |-> height - originalHeight,
                      w |-> originalWidth, h |-> originalHeight] >>]

\* handleApply, the onload path for a ratio the select offers: the canvas
\* size and what drawImage put on the initially transparent canvas.  x2 and
\* y2 are twice xOffset and yOffset, which can be half pixels.  For the
\* ratios of ASPECT_RATIOS the double arithmetic of the comparison and of
\* Math.round agrees with the exact quotients used here.
paddedCanvas(image, aspectRatioValue) ==
    LET originalWidth == image.base64.w
        originalHeight == image.base64.h
        target == parseAspectRatio(aspectRatioValue)
        wider == originalWidth * target.den > originalHeight * target.num
        width == IF wider THEN originalWidth ELSE round(originalHeight * target.num, target.den)
        height == IF wider THEN round(originalWidth * target.den, target.num) ELSE originalHeight
    IN [width |-> width, height |-> height,
        drawn |-> << [pix |-> image.base64.pix, x2 |-> width - originalWidth,
                      y2 |-> height - originalHeight,
                      w |-> originalWidth, h |-> originalHeight] >>]

\* the variables of App
appVars == <<phase, now, activeTab, generatedPrompt, pendingResizes, lastClick, storeOps,
             sceneVars, genVars, editVars, histVars, countVars, edits, dropEvent>>

\* a call of parseAspectRatio returns
parseAspectRatioCall ==
    /\ targetAspectRatio = null
    /\ targetAspectRatio' = parseAspectRatio(ratioStr)
    /\ UNCHANGED <<appVars, resizeVars, padVars, imageToEdit, editorAspectRatio, editorCanvas,
                   ratioStr>>

\* the image handleApply loads has loaded
handleApplyOnload ==
    /\ imageToEdit # null
    /\ editorCanvas = null
    /\ editorCanvas' = paddedCanvas(imageToEdit, editorAspectRatio)
    /\ UNCHANGED <<appVars, resizeVars, padVars, imageToEdit, editorAspectRatio, ratioStr,
                   targetAspectRatio>>

\* the image resizeImage loads has loaded
resizeImageOnload ==
    /\ resizeSource # null
    /\ resizeSource.mime # "text/plain"
    /\ resizeCanvas = null
    /\ resizeError = null
    /\ resizeCanvas' = resizeImage(resizeSource, resizeTarget)
    /\ UNCHANGED <<appVars, editorVars, padVars, resizeSource, resizeTarget, resizeError>>

\* the characters of the ratio strings, and the strings
RatioChars == {"0", "1", "2", ":", "a", "."}
RatioStrings ==
    UNION { [1..n -> RatioChars] : n \in 0..MaxRatioLen }
    \cup { ASPECT_RATIOS[i] : i \in 1..Len(ASPECT_RATIOS) }

\* the images given to the ratio editor
PadSources ==
    { [mimeType |-> "image/png", base64 |-> [w |-> w, h |-> h, pix |-> "s"]] :
      w \in 1..MaxSide, h \in 1..MaxSide }
    \cup { [mimeType |-> "image/png", base64 |-> [w |-> 200, h |-> 100, pix |-> "s"]],
           UploadedImage }

\* the data URLs and the targets given to resizeImage
ResizeSources ==
    { [mime |-> "image/png", w |-> w, h |-> h, pix |-> "s"] :
      w \in 1..MaxSide, h \in 1..MaxSide }
    \cup ResultImages
    \cup { [mime |-> "image/png", w |-> 1024, h |-> 99, pix |-> "s"],
           [mime |-> "image/jpeg", w |-> 14, h |-> 3, pix |-> "s"],
           [mime |-> "image/webp", w |-> 300, h |-> 400, pix |-> "s"],
           [mime |-> "image/gif", w |-> 300, h |-> 400, pix |-> "s"] }
ResizeTargets == (1..MaxSide) \cup {35, 250, HISTORY_IMAGE_SIZE}

\* the mounted, idle app and one call: of the ratio editor on an image and
\* a ratio of its select, of parseAspectRatio on a string, or of resizeImage
InitGeometry ==
    /\ phase = "ready"
    /\ storage = null
    /\ InitScene
    /\ generatedPrompt = currentPrompt
    /\ InitRest
    /\ editorCanvas = null
    /\ targetAspectRatio = null
    /\ resizeCanvas = null
    /\ resizeError = null
    /\ editedElem = null
    /\ isEditModalOpen = FALSE
    /\ isProcessing = FALSE
    /\ loads = <<>>
    /\ padReport = null
    /\ dropEvent = null
    /\ \/ /\ imageToEdit \in PadSources
          /\ editorAspectRatio \in { ASPECT_RATIOS[i] : i \in 1..Len(ASPECT_RATIOS) }
          /\ ratioStr = ASPECT_RATIOS[1]
          /\ resizeSource = null
          /\ resizeTarget = HISTORY_IMAGE_SIZE
       \/ /\ imageToEdit = null
          /\ editorAspectRatio = ASPECT_RATIOS[1]
          /\ ratioStr \in RatioStrings
          /\ resizeSource = null
          /\ resizeTarget = HISTORY_IMAGE_SIZE
       \/ /\ imageToEdit = null
          /\ editorAspectRatio = ASPECT_RATIOS[1]
          /\ ratioStr = ASPECT_RATIOS[1]
          /\ resizeSource \in ResizeSources
          /\ resizeTarget \in ResizeTargets

NextGeometry ==
    \/ parseAspectRatioCall
    \/ handleApplyOnload
    \/ resizeImageOnload

SpecGeometry == InitGeometry /\ [][NextGeometry]_vars

\* the ratios the editor's select offers, as numerator and denominator
SelectableRatio ==
    << <<16, 9>>, <<9, 16>>, <<1, 1>>, <<4, 3>>, <<239, 100>> >>

\* k is a / b rounded to an integer, a half rounded up
IsRounded(k, a, b) == 2 * k * b <= 2 * a + b /\ 2 * a + b < 2 * (k + 1) * b

\* C18: padding a W x H source to ratio r gives a canvas of W x round(W / r)
\* when W / H > r and of round(H * r) x H otherwise; the source is the only
\* thing drawn, at its original size, at offset ((newW - W) / 2,
\* (newH - H) / 2), which lies inside the canvas; a 200 x 100 source padded
\* to 1:1 gives a 200 x 200 canvas with offsets 0 and 50.
C18_PadToAspectRatio ==
    (imageToEdit # null /\ editorCanvas # null) =>
        LET W == imageToEdit.base64.w
            H == imageToEdit.base64.h
            i == CHOOSE k \in 1..Len(ASPECT_RATIOS) : ASPECT_RATIOS[k] = editorAspectRatio
            n == SelectableRatio[i][1]
            d == SelectableRatio[i][2]
            newW == editorCanvas.width
            newH == editorCanvas.height
        IN /\ IF W * d > H * n
              THEN newW = W /\ IsRounded(newH, W * d, n)
              ELSE newH = H /\ IsRounded(newW, H * n, d)
           /\ editorCanvas.drawn =
                  << [pix |-> imageToEdit.base64.pix, x2 |-> newW - W, y2 |-> newH - H,
                      w |-> W, h |-> H] >>
           /\ newW >= W /\ newH >= H
           /\ (W = 200 /\ H = 100 /\ i = 3) =>
                  /\ newW = 200 /\ newH = 200
                  /\ editorCanvas.drawn[1].x2 = 2 * 0 /\ editorCanvas.drawn[1].y2 = 2 * 50

\* the 200 x 100 source has been padded to 1:1
C18_Witness ==
    /\ imageToEdit # null
    /\ imageToEdit.base64.w = 200 /\ imageToEdit.base64.h = 100
    /\ editorAspectRatio = ASPECT_RATIOS[3]
    /\ editorCanvas # null
    /\ editorCanvas.height = 200

\* a part is numeric: digits with at most one ".", and at least one digit
IsNumeric(part) ==
    /\ \A i \in 1..Len(part) : isDigit(part[i]) \/ part[i] = "."
    /\ Cardinality({i \in 1..Len(part) : part[i] = "."}) <= 1
    /\ \E i \in 1..Len(part) : isDigit(part[i])

\* the number a numeric part denotes
NumericValue(part) ==
    LET dots == {i \in 1..Len(part) : part[i] = "."}
        decimals == IF dots = {} THEN 0 ELSE Len(part) - (CHOOSE i \in dots : TRUE)
    IN number(decimal(SelectSeq(part, isDigit)), pow10(decimals))

\* C19: parsing fails soft: a ratio string that is not two numeric parts
\* separated by one colon, or whose denominator is zero, parses to 16/9;
\* a well-formed n:d with d non-zero parses to n / d.
C19_ParseFailsSoft ==
    targetAspectRatio # null =>
        LET colons == {i \in 1..Len(ratioStr) : ratioStr[i] = ":"}
            at == CHOOSE i \in colons : TRUE
            n == SubSeq(ratioStr, 1, at - 1)
            d == SubSeq(ratioStr, at + 1, Len(ratioStr))
            wellFormed == Cardinality(colons) = 1 /\ IsNumeric(n) /\ IsNumeric(d)
        IN IF wellFormed /\ NumericValue(d).num # 0
           THEN equals(targetAspectRatio, divide(NumericValue(n), NumericValue(d)))
           ELSE equals(targetAspectRatio, number(16, 9))

\* k is an integer nearest to a / b: at most half a unit away
IsNearest(k, a, b) == 2 * (k * b - a) <= b /\ 2 * (a - k * b) <= b

\* C20 as stated: resizing a W x H image to target T gives T x round(T*H/W)
\* when W > H and round(T*W/H) x T otherwise, a half rounded up as
\* Math.round does; 1000 x 500 with target 250 gives 250 x 125.
C20_ResizeRoundsHalfUp ==
    (resizeSource # null /\ resizeCanvas # null) =>
        LET W == resizeSource.w
            H == resizeSource.h
            T == resizeTarget
        IN /\ IF W > H
              THEN resizeCanvas.w = T /\ IsRounded(resizeCanvas.h, T * H, W)
              ELSE resizeCanvas.h = T /\ IsRounded(resizeCanvas.w, T * W, H)
           /\ (W = 1000 /\ H = 500 /\ T = 250) =>
                  resizeCanvas.w = 250 /\ resizeCanvas.h = 125

\* C20: resizing a W x H image to target T gives a canvas whose longest
\* side is exactly T and whose other side is an integer nearest to the
\* proportional value T*H/W (or T*W/H), so within half a pixel of it; when
\* the proportional value is exactly k + 1/2 the side is k or k + 1;
\* 1000 x 500 with target 250 gives exactly 250 x 125.
C20_ResizeToNearest ==
    (resizeSource # null /\ resizeCanvas # null) =>
        LET W == resizeSource.w
            H == resizeSource.h
            T == resizeTarget
        IN /\ IF W > H
              THEN resizeCanvas.w = T /\ IsNearest(resizeCanvas.h, T * H, W)
                   /\ resizeCanvas.h <= T
              ELSE resizeCanvas.h = T /\ IsNearest(resizeCanvas.w, T * W, H)
                   /\ resizeCanvas.w <= T
           /\ (W = 1000 /\ H = 500 /\ T = 250) =>
                  resizeCanvas.w = 250 /\ resizeCanvas.h = 125

\* the 1000 x 500 image has been resized to target 250
C20_Witness ==
    /\ resizeSource # null
    /\ resizeSource.w = 1000 /\ resizeSource.h = 500
    /\ resizeTarget = 250
    /\ resizeCanvas # null
    /\ resizeCanvas.w = 250 /\ resizeCanvas.h = 125

\* the encodings that lose detail (a WebP data URL as encoders write it by
\* default, lossy) and the encodings that can carry an alpha channel
LossyEncodings == {"image/jpeg", "image/webp"}
AlphaEncodings == {"image/png", "image/webp", "image/gif"}

\* C21: resizeImage re-encodes in the encoding family of its input: a lossy
\* input gives a lossy output and an alpha-capable input an alpha-capable
\* output, for every input encoding.
C21_EncodingFamilyKept ==
    (resizeSource # null /\ resizeCanvas # null) =>
        /\ resizeSource.mime \in LossyEncodings => resizeCanvas.mime \in LossyEncodings
        /\ resizeSource.mime \in AlphaEncodings => resizeCanvas.mime \in AlphaEncodings

\* ---------------------------------------------- the ratio editor of an item
\* The model follows the ratio editor of one item of a list.  An entry of
\* loads is an Image whose src handleApply has set: the image, ratio and
\* item its callbacks closed over, whether the editor that started it is
\* still mounted, and whether the editor was closed while it was pending.

\* a file that is not an image, as the uploader stores it, and as a data URL
BrokenImage == [mimeType |-> "text/plain", base64 |-> [w |-> 0, h |-> 0, pix |-> "t"]]
BrokenDataUrl == [mime |-> "text/plain", w |-> 0, h |-> 0, pix |-> "t"]

\* parseDataUrl(canvas.toDataURL('image/png', 1.0))
paddedImage(canvas) ==
    parseDataUrl([mime |-> "image/png", w |-> canvas.width, h |-> canvas.height,
                  pix |-> canvas.drawn[1].pix])

\* canvasRef.current, as a callback of the load finds it: the canvas is
\* rendered while the editor that started the load is mounted and open
canvasRefCurrent(load) == load.mounted /\ isEditModalOpen

\* what the editor's handlers and callbacks leave alone
editorFrame ==
    /\ lastClick' = "none"
    /\ storeOps' = <<>>
    /\ UNCHANGED <<phase, now, activeTab, pendingResizes, genVars, editVars, histVars,
                   countVars, resizeVars, ratioStr, targetAspectRatio, dropEvent>>

\* the edit button of an item's uploader; the editor's effect on isOpen
\* resets the ratio to the first option
handleEditClick(listName, id) ==
    /\ phase = "ready"
    /\ activeTab = "generate"
    /\ ~isEditModalOpen
    /\ editedElem \in {null, [listName |-> listName, id |-> id]}
    /\ \E i \in DOMAIN elementList(listName) :
         /\ elementList(listName)[i].id = id
         /\ elementList(listName)[i].image # null
         /\ imageToEdit' = elementList(listName)[i].image
    /\ editedElem' = [listName |-> listName, id |-> id]
    /\ isEditModalOpen' = TRUE
    /\ editorAspectRatio' = ASPECT_RATIOS[1]
    /\ editorFrame
    /\ UNCHANGED <<sceneVars, generatedPrompt, edits, editorCanvas, isProcessing, loads,
                   padReport>>

\* the editor's select
editorSetAspectRatio(value) ==
    /\ isEditModalOpen
    /\ value # editorAspectRatio
    /\ editorAspectRatio' = value
    /\ editorFrame
    /\ UNCHANGED <<sceneVars, generatedPrompt, edits, imageToEdit, editorCanvas, padVars>>

\* mutant of handleApply: the Apply button is not disabled while processing
handleApplyNotDisabled ==
    /\ isEditModalOpen
    /\ imageToEdit # null
    /\ edits < MaxEdits
    /\ edits' = edits + 1
    /\ isProcessing' = TRUE
    /\ loads' = Append(loads, [image |-> imageToEdit, aspectRatio |-> editorAspectRatio,
                               listName |-> editedElem.listName, id |-> editedElem.id,
                               mounted |-> TRUE, cancelled |-> FALSE])
    /\ editorFrame
    /\ UNCHANGED <<sceneVars, generatedPrompt, imageToEdit, editorAspectRatio, editorCanvas,
                   editedElem, isEditModalOpen, padReport>>

\* the Apply button, disabled while isProcessing: handleApply up to the
\* point where the image's src is set
handleApply ==
    /\ isEditModalOpen
    /\ ~isProcessing
    /\ imageToEdit # null
    /\ edits < MaxEdits
    /\ edits' = edits + 1
    /\ isProcessing' = TRUE
    /\ loads' = Append(loads, [image |-> imageToEdit, aspectRatio |-> editorAspectRatio,
                               listName |-> editedElem.listName, id |-> editedElem.id,
                               mounted |-> TRUE, cancelled |-> FALSE])
    /\ editorFrame
    /\ UNCHANGED <<sceneVars, generatedPrompt, imageToEdit, editorAspectRatio, editorCanvas,
                   editedElem, isEditModalOpen, padReport>>

\* Cancel, the modal's close button or a click outside the dialog; the
\* loads pending in this editor are marked as closed over
handleEditorOnClose ==
    /\ isEditModalOpen
    /\ isEditModalOpen' = FALSE
    /\ imageToEdit' = null
    /\ loads' = [i \in DOMAIN loads |->
                   IF loads[i].mounted THEN [loads[i] EXCEPT !.cancelled = TRUE]
                   ELSE loads[i]]
    /\ editorFrame
    /\ UNCHANGED <<sceneVars, generatedPrompt, edits, editorAspectRatio, editorCanvas,
                   editedElem, isProcessing, padReport>>

\* loads without its i-th entry
settled(i) == SubSeq(loads, 1, i - 1) \o SubSeq(loads, i + 1, Len(loads))

\* setIsProcessing(false) by a callback: a no-op on an unmounted editor
setIsProcessingFalse(load) ==
    isProcessing' = IF load.mounted THEN FALSE ELSE isProcessing

\* img.onload of a load whose image decodes, with a 2d context: without a
\* canvas it only re-enables the button; with one it draws, encodes and
\* calls onApply, which is handleEditorOnApply of the item
imgOnload(i) ==
    LET load == loads[i]
        canvas == paddedCanvas(load.image, load.aspectRatio)
    IN /\ load.image # BrokenImage
       /\ editorFrame
       /\ loads' = settled(i)
       /\ setIsProcessingFalse(load)
       /\ IF canvasRefCurrent(load)
          THEN /\ editorCanvas' = canvas
               /\ setElementList(load.listName,
                                 onImageUploadUpdater(elementList(load.listName), load.id,
                                                      paddedImage(canvas)))
               /\ UNCHANGED <<sceneDescription, sceneLocationImage, styleImage, aspectRatio,
                              artisticStyle, lightingStyle, cameraPerspective>>
               /\ promptGeneratorEffect
               /\ isEditModalOpen' = FALSE
               /\ imageToEdit' = null
               /\ padReport' = [load |-> load, event |-> "load", callback |-> "onApply"]
          ELSE /\ padReport' = [load |-> load, event |-> "load", callback |-> "none"]
               /\ UNCHANGED <<sceneVars, generatedPrompt, editorCanvas, isEditModalOpen,
                              imageToEdit>>
       /\ UNCHANGED <<edits, editorAspectRatio, editedElem>>

\* img.onload when canvas.getContext('2d') gives null
imgOnloadNoContext(i) ==
    LET load == loads[i]
    IN /\ load.image # BrokenImage
       /\ canvasRefCurrent(load)
       /\ loads' = settled(i)
       /\ setIsProcessingFalse(load)
       /\ padReport' = [load |-> load, event |-> "no context", callback |-> "none"]
       /\ editorFrame
       /\ UNCHANGED <<sceneVars, generatedPrompt, edits, imageToEdit, editorAspectRatio,
                      editorCanvas, editedElem, isEditModalOpen>>

\* img.onerror: the image does not decode; the failure is logged to the
\* console and the button re-enabled
imgOnerror(i) ==
    LET load == loads[i]
    IN /\ load.image = BrokenImage
       /\ loads' = settled(i)
       /\ setIsProcessingFalse(load)
       /\ padReport' = [load |-> load, event |-> "error", callback |-> "none"]
       /\ editorFrame
       /\ UNCHANGED <<sceneVars, generatedPrompt, edits, imageToEdit, editorAspectRatio,
                      editorCanvas, editedElem, isEditModalOpen>>

\* resizeImage's img.onerror: reject(new Error(...))
resizeImageOnerror ==
    /\ resizeSource = BrokenDataUrl
    /\ resizeCanvas = null
    /\ resizeError = null
    /\ resizeError' = [message |-> "Failed to load image for resizing."]
    /\ UNCHANGED <<appVars, editorVars, padVars, resizeSource, resizeTarget, resizeCanvas>>

\* resizeImage's img.onload when getContext('2d') gives null: reject(...)
resizeImageNoContext ==
    /\ resizeSource \notin {null, BrokenDataUrl}
    /\ resizeCanvas = null
    /\ resizeError = null
    /\ resizeError' = [message |-> "Could not get canvas context"]
    /\ UNCHANGED <<appVars, editorVars, padVars, resizeSource, resizeTarget, resizeCanvas>>

\* the images of the edited item: an upload, a small picture, a file that
\* is not an image
EditorImages ==
    { UploadedImage, BrokenImage,
      [mimeType |-> "image/png", base64 |-> [w |-> 3, h |-> 1, pix |-> "s"]] }

\* the mounted, idle app with one character that has an image, and a call
\* of resizeImage on a result or on a URL that is not an image
InitEditor ==
    /\ phase = "ready"
    /\ storage = null
    /\ characters \in { << [id |-> SessionStart, name |-> <<"x">>, image |-> image] >> :
                         image \in EditorImages }
    /\ additionalElements = <<>>
    /\ sceneDescription = <<>>
    /\ sceneLocationImage = null
    /\ styleImage = null
    /\ aspectRatio = ASPECT_RATIOS[1]
    /\ artisticStyle = ARTISTIC_STYLES[1]
    /\ lightingStyle = LIGHTING_STYLES[1]
    /\ cameraPerspective = CAMERA_PERSPECTIVES[1]
    /\ generatedPrompt = currentPrompt
    /\ InitRest
    /\ imageToEdit = null
    /\ editorAspectRatio = ASPECT_RATIOS[1]
    /\ editorCanvas = null
    /\ ratioStr = ASPECT_RATIOS[1]
    /\ targetAspectRatio = null
    /\ resizeSource \in ResultImages \cup {BrokenDataUrl}
    /\ resizeTarget = HISTORY_IMAGE_SIZE
    /\ resizeCanvas = null
    /\ resizeError = null
    /\ editedElem = null
    /\ isEditModalOpen = FALSE
    /\ isProcessing = FALSE
    /\ loads = <<>>
    /\ padReport = null
    /\ dropEvent = null

\* the user edits the character's image in the ratio editor, replaces or
\* removes the image or the character, and changes tab, while image loads
\* and the resize settle in any order
NextEditor ==
    \/ \E id \in ids(characters) : handleEditClick("characters", id)
    \/ \E i \in 1..2 : editorSetAspectRatio(ASPECT_RATIOS[i])
    \/ handleApply
    \/ handleEditorOnClose
    \/ \E i \in DOMAIN loads : imgOnload(i)
    \/ \E i \in DOMAIN loads : imgOnloadNoContext(i)
    \/ \E i \in DOMAIN loads : imgOnerror(i)
    \/ \E id \in ids(characters), image \in {null} \cup EditorImages :
         onImageUpload("characters", id, image)
    \/ \E id \in ids(characters) : onRemove("characters", id)
    \/ \E tabName \in {"generate", "edit"} : setActiveTab(tabName)
    \/ resizeImageOnload
    \/ resizeImageOnerror
    \/ resizeImageNoContext

SpecEditor == InitEditor /\ [][NextEditor]_vars

\* C22: both geometry operations report failure to their caller: a source
\* that does not load gives the caller a decode error, a missing drawing
\* context gives it an error too, and in neither case is an output
\* delivered.  The caller of the pad hears from the editor through its
\* callbacks; the caller of resizeImage through the promise.
C22_FailuresReported ==
    /\ padReport # null =>
           (padReport.event \in {"error", "no context"} =>
                padReport.callback \notin {"none", "onApply"})
    /\ resizeError # null =>
           /\ resizeCanvas = null
           /\ resizeError.message =
                  IF resizeSource = BrokenDataUrl THEN "Failed to load image for resizing."
                  ELSE "Could not get canvas context"

\* the ids of a list are pairwise distinct
Distinct(list) == \A i, j \in DOMAIN list : i # j => list[i].id # list[j].id

\* C23: after any sequence of add, remove, rename, image upload and
\* reorder actions the ids within the character list and within the object
\* list are pairwise distinct.
C23_ElementIdsUnique == Distinct(characters) /\ Distinct(additionalElements)

\* the pending loads started by the editor that is still mounted: the pads
\* in flight over its canvas
InFlight == {i \in DOMAIN loads : loads[i].mounted}

\* C24: two pads over the same editor canvas are never in flight at the
\* same time: while a pad started by Apply has not had its load or error
\* callback run, Apply starts no second pad in that editor, also after the
\* editor was closed and opened again.
C24_OnePadInFlight ==
    /\ [](Cardinality(InFlight) <= 1)
    /\ [](isProcessing <=> InFlight # {})
    /\ [][Len(loads') > Len(loads) => InFlight = {}]_vars

\* a pad is pending in an editor that was closed and opened again
C24_Witness ==
    /\ isEditModalOpen
    /\ \E i \in InFlight : loads[i].cancelled

\* C28: a pad that was pending when the editor was closed with Cancel
\* never invokes onApply, so it never replaces the element's image,
\* whatever the user does next, reopening the editor included.
C28_CancelledPadNeverApplies ==
    padReport # null =>
        ~(padReport.load.cancelled /\ padReport.callback = "onApply")

\* the pad applied to the output of a pad, with the same ratio
paddedAgain(canvas) == paddedCanvas(paddedImage(canvas), editorAspectRatio)

\* C30 as claimed: padding the output of a pad with the same selectable
\* ratio gives a canvas of the same width and height, for every source size.
C30_PadIdempotent ==
    (imageToEdit # null /\ editorCanvas # null) =>
        /\ paddedAgain(editorCanvas).width = editorCanvas.width
        /\ paddedAgain(editorCanvas).height = editorCanvas.height

\* C30 as the code has it: padding the output of a pad with the same
\* selectable ratio never shrinks the canvas and grows at most one of its
\* sides, by at most one pixel (none for 1:1); the output of that second pad
\* is a fixed point: a third pad leaves both dimensions as they are.
C30_PadSettlesAfterTwo ==
    (imageToEdit # null /\ editorCanvas # null) =>
        LET second == paddedAgain(editorCanvas)
            third == paddedAgain(second)
            growW == second.width - editorCanvas.width
            growH == second.height - editorCanvas.height
        IN /\ <<growW, growH>> \in { <<0, 0>>, <<1, 0>>, <<0, 1>> }
           /\ editorAspectRatio = ASPECT_RATIOS[3] => <<growW, growH>> = <<0, 0>>
           /\ third.width = second.width
           /\ third.height = second.height

\* a 3 x 1 source has been padded to 16:9, giving 3 x 2, and padding that
\* again gives 4 x 2
C30_Witness ==
    /\ imageToEdit # null
    /\ imageToEdit.base64.w = 3 /\ imageToEdit.base64.h = 1
    /\ editorAspectRatio = ASPECT_RATIOS[1]
    /\ editorCanvas # null
    /\ editorCanvas.width = 3 /\ editorCanvas.height = 2
    /\ paddedAgain(editorCanvas).width = 4
    /\ paddedAgain(editorCanvas).height = 2

\* ------------------------------------------------------------ drag and drop
\* parseInt(e.dataTransfer.getData('text/plain'), 10), for the text of a
\* drag started on an item of this list or of the other list (its index
\* there), or of a drag of some other text
DragIndices == {NaN} \cup { number(n, 1) : n \in (0 - 1)..MaxCharacters }

\* handleDrop of EditableList: a drag is dropped on the item at dropIndex.
\* splice reads a NaN start as 0.  A list holding undefined makes the next
\* render throw at elem.id, and React unmounts the app.
handleDrop(listName, dragIndex, dropIndex) ==
    /\ phase = "ready"
    /\ activeTab = "generate"
    /\ ~isEditModalOpen
    /\ dropIndex \in 0..(Len(elementList(listName)) - 1)
    /\ ~equals(dragIndex, number(dropIndex, 1))
    /\ lastClick' = "none"
    /\ storeOps' = <<>>
    /\ UNCHANGED <<now, activeTab, pendingResizes, genVars, editVars, histVars, countVars,
                   edits, editorVars, resizeVars, padVars>>
    /\ UNCHANGED <<sceneDescription, sceneLocationImage, styleImage, aspectRatio,
                   artisticStyle, lightingStyle, cameraPerspective>>
    /\ dropEvent' = [listName |-> listName, dragIndex |-> dragIndex, dropIndex |-> dropIndex]
    /\ LET startIndex == IF dragIndex.nan THEN 0 ELSE dragIndex.num
           result == handleReorder(elementList(listName), startIndex, dropIndex)
       IN /\ setElementList(listName, result)
          /\ IF \E i \in DOMAIN result : result[i] = undefined
             THEN /\ phase' = "crashed"
                  /\ UNCHANGED generatedPrompt
             ELSE /\ UNCHANGED phase
                  /\ promptGeneratorEffect

\* the mounted app on the generate tab, idle, with lists a session can have
\* built and their prompt composed
InitDrop ==
    /\ phase = "ready"
    /\ storage = null
    /\ characters \in CharacterLists
    /\ additionalElements \in ElementLists
    /\ sceneDescription = <<>>
    /\ sceneLocationImage = null
    /\ styleImage = null
    /\ aspectRatio = ASPECT_RATIOS[1]
    /\ artisticStyle = ARTISTIC_STYLES[1]
    /\ lightingStyle = LIGHTING_STYLES[1]
    /\ cameraPerspective = CAMERA_PERSPECTIVES[1]
    /\ generatedPrompt = currentPrompt
    /\ InitRest
    /\ InitTools

\* drags are dropped on the items of the two lists
NextDrop ==
    \E listName \in {"characters", "objects"}, dragIndex \in DragIndices,
       dropIndex \in 0..(MaxCharacters - 1) : handleDrop(listName, dragIndex, dropIndex)

SpecDrop == InitDrop /\ [][NextDrop]_vars

\* a list without its item at position i
Without(list, i) == SubSeq(list, 1, i - 1) \o SubSeq(list, i + 1, Len(list))

\* C25: a drop that reorders a list, with whatever start index the drop
\* event delivers, leaves the list a permutation of what it was: the same
\* length and the same ids, some element moved to the end index (the one at
\* the start index when that is a position of the list), every other
\* element in its previous relative order; the other list is untouched.
C25_ReorderIsPermutation ==
    [][dropEvent' # null =>
        LET event == dropEvent'
            ofCharacters == event.listName = "characters"
            before == IF ofCharacters THEN characters ELSE additionalElements
            after == IF ofCharacters THEN characters' ELSE additionalElements'
            end == event.dropIndex + 1
        IN /\ Len(after) = Len(before)
           /\ ids(after) = ids(before)
           /\ \E start \in DOMAIN before :
                /\ after[end] = before[start]
                /\ Without(after, end) = Without(before, start)
                /\ (~event.dragIndex.nan /\ event.dragIndex.num \in 0..(Len(before) - 1))
                       => start = event.dragIndex.num + 1
           /\ ofCharacters => additionalElements' = additionalElements
           /\ ~ofCharacters => characters' = characters]_vars

\* C26: whenever genLoading is false no generation request is in flight,
\* neither awaited nor left over from an earlier batch; so the requests of
\* an earlier batch are never outstanding together with those of the batch
\* being awaited.
C26_NoRequestOutlivesLoading ==
    /\ ~genLoading => (genRequests = <<>> /\ orphanRequests = 0)
    /\ ~(orphanRequests > 0 /\ \E i \in DOMAIN genRequests : genRequests[i] = Pending)

\* C27: the ids of the history items are pairwise distinct in every
\* reachable state, also for the items appended from one batch of several
\* images, so that a deletion by id removes at most one item.
C27_HistoryIdsUnique ==
    /\ [](phase = "ready" => Distinct(history))
    /\ [][deletes' = deletes + 1 => Len(history') >= Len(history) - 1]_vars

\* ------------------------------------------------------- settling requests
\* a generateStoryImage call of the awaited batch settles
generateStoryImageSettles ==
    \/ \E i \in 1..MaxNumberOfImages, image \in ResultImages :
         generateStoryImageResolved(i, image)
    \/ \E i \in 1..MaxNumberOfImages, err \in ErrorMessages :
         generateStoryImageRejected(i, err)

\* the generateStoryImage call of the edit settles
editSettles ==
    \/ \E image \in ResultImages : editResolved(image)
    \/ \E err \in ErrorMessages : editRejected(err)

\* a session on both tabs in which every API call that was issued settles;
\* the history's resizes are left pending
NextLoading ==
    \/ Mount
    \/ \E tabName \in {"generate", "edit"} : setActiveTab(tabName)
    \/ \E value \in Descriptions : setSceneDescription(value)
    \/ \E n \in 1..MaxNumberOfImages : n <= MaxRequests /\ setNumberOfImages(n)
    \/ handleGenerateClick
    \/ generateStoryImageSettles
    \/ orphanSettled
    \/ \E value \in EditInstructions : setStandaloneEditPrompt(value)
    \/ setEditBaseImage(UploadedImage)
    \/ handleApplyStandaloneEdit
    \/ editSettles

SpecLoading ==
    /\ InitSession
    /\ [][NextLoading]_vars
    /\ WF_vars(generateStoryImageSettles)
    /\ WF_vars(editSettles)

\* the outcome of a generate: an error and no images, or images and no error
GenerateOutcome(images, error) ==
    \/ error # null /\ images = <<>>
    \/ error = null /\ images # <<>>

\* the outcome of an edit: an error and no image, or an image and no error
EditOutcome(image, error) ==
    \/ error # null /\ image = null
    \/ error = null /\ image # null

\* C29: once a generate or an edit has been triggered and every API call
\* settles, genLoading (editLoading) returns to false, after success and
\* after failure; in the step that clears the flag exactly one outcome is
\* set: an error message with no result image, or result images with no
\* error message.
C29_LoadingEndsWithOneOutcome ==
    /\ genLoading ~> ~genLoading
    /\ editLoading ~> ~editLoading
    /\ [][(genLoading /\ ~genLoading') => GenerateOutcome(generatedImages', genError')]_vars
    /\ [][(editLoading /\ ~editLoading') => EditOutcome(editedImage', editError')]_vars

\* a generate has failed and an edit has succeeded, both flags are clear
C29_Witness ==
    /\ issued = 2
    /\ ~genLoading /\ genError # null /\ generatedImages = <<>>
    /\ ~editLoading /\ editError = null /\ editedImage # null

====
